---- MODULE Spec2Model ----
(***************************************************************************)
(* Verification model of the VeritasAI document-ingestion pipeline:        *)
(*   - RecursiveChunkingService   (app/services/chunking_service.py)       *)
(*   - EmbeddingService           (app/services/embedding_service.py)      *)
(*   - document processing task   (app/tasks/document_tasks.py)            *)
(*   - upload dispatch            (app/views.py, document_upload)          *)
(*                                                                         *)
(* A Python str is a sequence of one-character strings.                    *)
(***************************************************************************)
EXTENDS Integers, Sequences, FiniteSets, TLC

VARIABLES
    \* ---- one call of RecursiveChunkingService.chunk ----
    text,           \* the text argument
    chunk_size,     \* the chunk_size argument
    overlap,        \* the overlap argument
    cpc,            \* "call" before the call, then what the call did
    result,         \* the list chunk() returned
    \* ---- the while loop of _split_with_overlap ----
    s_text,         \* text (separator free, longer than s_size)
    s_size,         \* chunk_size
    s_overlap,      \* overlap, already clamped by chunk()
    start,          \* start
    previous_end,   \* previous_end
    s_chunks,       \* chunks
    s_pc,           \* "loop" while the loop runs, "return" after it
    s_iter,         \* iterations made so far (bounds the exploration only)
    \* ---- one call of EmbeddingService.generate_embeddings ----
    e_chunks,       \* the chunks argument
    e_callback,     \* whether a progress_callback is passed
    e_concurrency,  \* self.concurrency
    e_max_retries,  \* self.max_retries
    e_provider,     \* self.provider_name
    e_pc,           \* "call", "gather", "delay", then "returned" or "raised"
    e_valid,        \* valid_chunks, the chunks argument of _generate_embeddings_async
    e_offset,       \* the index i at which the current batch starts in e_valid
    e_tasks,        \* the tasks of the current batch, in the order of the batch
    e_order,        \* the tasks of the current batch in the order they finished
    embeddings,     \* embeddings
    processed,      \* processed
    e_progress,     \* the calls progress_callback has received
    e_requests,     \* embedding requests sent to a backend so far
    e_error,        \* the exception the call raises
    \* ---- one Document and the runs of _process_document_internal on it ----
    d_status,       \* Document.status
    d_error,        \* Document.error_message
    d_num_chunks,   \* Document.num_chunks
    d_rows,         \* number of DocumentChunk rows of the document
    d_text,         \* what TextExtractionService.extract returns for the stored file
    d_provider,     \* settings.DEFAULT_LLM_PROVIDER
    w_mode,         \* how the current run was started: "celery" or "sync"
    w_pc,           \* position of the upload view, then of the current run
    w_retries,      \* self.request.retries of the Celery task
    w_exc,          \* the exception caught by the handler of the current run
    w_n,            \* len(chunk_contents) of the current run
    w_count,        \* count of the current run
    w_reruns,       \* runs started by hand with manage.py process_document
    \* ---- the batch plan of one call of _generate_embeddings_async ----
    c_total,        \* total = len(chunks)
    c_concurrency,  \* self.concurrency
    c_effective,    \* effective_concurrency
    c_batches,      \* the lengths of the batches
    c_pc,           \* "call" before the plan is made, "planned" after
    \* ---- one chat turn: a request to chat_stream ----
    q_messages,     \* request.data['messages']
    q_session_id,   \* request.data['session_id']: none, a session of the caller, or not
    q_document_id,  \* request.data['document_id']: none, a document of the caller
                    \* by its status, or not
    t_pc,           \* the stage of the turn
    t_response,     \* what chat_stream returned: "400" or "stream"
    t_scope,        \* which of session and document is not None
    t_failed_at,    \* the stage in which the generator ended with an error
    t_events,       \* the events sent to the caller
    t_calls,        \* the calls made to cache, embedding, search and completion
    t_fragments,    \* content fragments added to full_response
    t_emitted,      \* the content of every data item the provider has sent
    t_forwarded,    \* the content of every content event, in order
    t_full_response,\* full_response
    t_saved,        \* the ChatMessage rows created by the turn
    t_message_count,\* session.message_count
    \* ---- the selection of context chunks of one chat turn ----
    k_candidates,   \* candidate_chunks, in descending similarity
    k_max_context_tokens,   \* max_context_tokens
    k_prompt_tokens,        \* base_tokens + user_tokens
    k_available,    \* available
    k_selected,     \* selected_chunks, as indices into candidate_chunks
    k_used_tokens,  \* used_tokens
    k_sources,      \* the sources persisted with the assistant message
    k_pc,           \* "candidates" before the selection, "selected" after it,
                    \* "saved" once the messages are persisted
    \* ---- the query-embedding cache and two chat turns using it ----
    h_cache,        \* the cache: cache key -> entry
    h_turns,        \* the turns: question, position, query_embedding
    \* ---- the documents and sessions of the users and the API operations ----
    a_documents,      \* the documents table: id -> row
    a_sessions,       \* the chat_sessions table: id -> row
    a_next_document,  \* the id the next document gets
    a_next_session,   \* the id the next session gets
    a_last,           \* the operation performed last and its answer
    \* ---- a call of the token estimation service ----
    n_text,           \* the text
    n_current_tokens, \* current_tokens
    n_max_tokens,     \* max_tokens
    n_tokens,         \* the result of estimate_tokens
    n_exceeds,        \* the result of would_exceed_limit
    n_pc,             \* "input", "estimated", "decided"
    \* ---- the retry loop of one embedding call and its sleeps ----
    b_max_retries,  \* self.max_retries
    b_retry_delay,  \* self.retry_delay, in tenths of a second
    b_attempts,     \* attempts
    b_delays,       \* the delay of every asyncio.sleep so far
    b_pc,           \* "call", "sleeping", "returned", "raised"
    \* ---- the chunks of one ingestion run and the rows stored for them ----
    p_chunks,          \* the content of every chunk returned by chunker.chunk(text)
    p_chunk_contents,  \* chunk_contents of the task
    p_valid_chunks,    \* valid_chunks of generate_embeddings
    p_embeddings,      \* embeddings returned to the task
    p_rows,            \* the DocumentChunk rows created by the storing loop
    p_pc,              \* "prepare", "embed", "embedding", "store", "completed", "raised"
    \* ---- concurrent chat turns on one ChatSession and its statistics ----
    m_rows,     \* the ChatMessage rows of the session, by id
    m_clock,    \* timezone.now(), counted in row creations
    m_session,  \* the ChatSession row in the database
    m_local,    \* per turn: the session object held by the request, and its messages
    m_pc        \* per turn: "request", "user_msg", "assistant_msg", "count", "first", "save", "done"

chunkVars == <<text, chunk_size, overlap, cpc, result>>
sliceVars == <<s_text, s_size, s_overlap, start, previous_end, s_chunks, s_pc, s_iter>>
embedConfig == <<e_chunks, e_callback, e_concurrency, e_max_retries, e_provider>>
embedVars == <<embedConfig, e_pc, e_valid, e_offset, e_tasks, e_order, embeddings,
               processed, e_progress, e_requests, e_error>>
docVars == <<d_status, d_error, d_num_chunks, d_rows>>
ingestConfig == <<d_text, d_provider>>
runVars == <<w_mode, w_pc, w_retries, w_exc, w_n, w_count, w_reruns>>
ingestVars == <<docVars, ingestConfig, runVars>>
planVars == <<c_total, c_concurrency, c_effective, c_batches, c_pc>>
chatRequest == <<q_messages, q_session_id, q_document_id>>
streamVars == <<t_emitted, t_forwarded, t_full_response>>
chatVars == <<chatRequest, t_pc, t_response, t_scope, t_failed_at, t_events, t_calls,
              t_fragments, streamVars, t_saved, t_message_count>>

-----------------------------------------------------------------------------
(* Bounds of the exploration *)

MaxLen == 6          \* longest text handed to chunk()
MaxChunkSize == 4    \* largest chunk_size argument
MaxOverlap == 2      \* largest overlap argument
MaxIter == 4         \* loop iterations of _split_with_overlap explored
MaxChunks == 3       \* longest chunk list handed to generate_embeddings
MaxConcurrencyArg == 4   \* largest concurrency argument of EmbeddingService
MaxRetriesArg == 2   \* largest max_retries argument of EmbeddingService
MaxDocChunks == 2    \* most chunks chunker.chunk returns for a document
MaxReruns == 1       \* runs started by hand on an already dispatched document
ShortErrLen == 20    \* length of a short exception text
MaxTotal == 202      \* largest number of chunks for which a batch plan is made
MaxMessages == 2     \* longest message list of a chat request
MaxFragments == 2    \* content fragments streamed in a chat turn
MaxCandidates == 3   \* most candidate chunks of a vector search
MaxContextTokens == 16   \* largest max_context_tokens
MaxPromptTokens == 2 \* largest base_tokens + user_tokens
MaxDocuments == 2    \* most documents ever created
MaxSessions == 1     \* most chat sessions ever created
MaxSessionMessages == 2  \* most messages persisted in a session
MaxCurrentTokens == 2    \* largest current_tokens
MaxTokenLimit == 3   \* largest max_tokens
MaxBackoffRetries == 4   \* largest max_retries of the retry loop
MaxRetryDelay == 3   \* largest retry_delay, in seconds
MaxTurns == 2   \* chat turns on the same session

-----------------------------------------------------------------------------
(* Python str helpers *)

Alphabet == {"a", ".", " ", "\n"}

\* str.isspace() for the characters of the alphabet
IsSpace(c) == c \in {" ", "\n"}

Min(a, b) == IF a <= b THEN a ELSE b

\* all str of at most n characters
StrUpTo(n) == UNION {[1..k -> Alphabet] : k \in 0..n}

RECURSIVE lstrip(_)
lstrip(s) == IF s # <<>> /\ IsSpace(Head(s)) THEN lstrip(Tail(s)) ELSE s

RECURSIVE rstrip(_)
rstrip(s) ==
    IF s # <<>> /\ IsSpace(s[Len(s)]) THEN rstrip(SubSeq(s, 1, Len(s) - 1)) ELSE s

\* str.strip()
strip(s) == rstrip(lstrip(s))

\* s[-n:] for n >= 0.  Python reads -0 as 0, so s[-0:] is the whole of s.
LastChars(s, n) ==
    IF n = 0 \/ n >= Len(s) THEN s ELSE SubSeq(s, Len(s) - n + 1, Len(s))

\* s[a:b] for 0 <= a, 0 <= b
Slice(s, a, b) ==
    IF a >= Min(b, Len(s)) THEN <<>> ELSE SubSeq(s, a + 1, Min(b, Len(s)))

StartsWith(s, p) == Len(p) <= Len(s) /\ SubSeq(s, 1, Len(p)) = p

\* str.split(sep) for a non-empty sep: leftmost, non-overlapping matches
RECURSIVE SplitFrom(_, _, _)
SplitFrom(s, sep, acc) ==
    IF s = <<>> THEN <<acc>>
    ELSE IF StartsWith(s, sep)
         THEN <<acc>> \o SplitFrom(SubSeq(s, Len(sep) + 1, Len(s)), sep, <<>>)
         ELSE SplitFrom(Tail(s), sep, Append(acc, Head(s)))

split(s, sep) == SplitFrom(s, sep, <<>>)

-----------------------------------------------------------------------------
(* RecursiveChunkingService *)

\* _create_chunk: {'content': content, 'metadata': {'length': len(content)}}
create_chunk(content) == [content |-> content, length |-> Len(content)]

\* splitters = ["\n\n", "\n", ". ", " "]
splitters == << <<"\n", "\n">>, <<"\n">>, <<".", " ">>, <<" ">> >>

\* What a call does: it returns a list ("returned"), or one loop iteration
\* repeats forever, appending a chunk each time ("hang"), or chunk() is called
\* again with the text of a call still in progress, which recurses until the
\* interpreter raises ("RecursionError").
Returned(chunks) == [outcome |-> "returned", chunks |-> chunks]
Hang == [outcome |-> "hang", chunks |-> <<>>]
RecursionError == [outcome |-> "RecursionError", chunks |-> <<>>]

\* overlap = min(overlap, int(chunk_size * 0.5))
ClampOverlap(size, ov) == Min(ov, size \div 2)

\* chunk_content[-overlap:] if len(chunk_content) > overlap else ""
OverlapHead(content, ov) == IF Len(content) > ov THEN SubSeq(content, 1, ov) ELSE <<>>
OverlapTail(content, ov) == IF Len(content) > ov THEN LastChars(content, ov) ELSE <<>>

\* One iteration of the while loop of _split_with_overlap, from the loop state
\* (start, previous_end): the chunk appended, the new loop state, and whether the
\* break is taken.
SplitStep(txt, size, ov, st, prev) ==
    LET chunk_end == Min(st + size, Len(txt))
        window == Slice(txt, st, chunk_end)
        content == IF prev # <<>> /\ st > 0 THEN prev \o window ELSE window
        newStart == chunk_end - ov
    IN  [chunk |-> create_chunk(content),
         previous_end |-> OverlapTail(content, ov),
         start |-> newStart,
         stop |-> (newStart <= 0 \/ newStart >= Len(txt))]

\* _split_with_overlap as a function of its arguments.  The loop state is
\* (start, previous_end); an iteration that neither breaks nor changes it is
\* repeated forever, appending the same chunk each time: the call never returns.
RECURSIVE SplitLoop(_, _, _, _, _, _)
SplitLoop(txt, size, ov, st, prev, chunks) ==
    IF ~(st < Len(txt)) THEN Returned(chunks)
    ELSE LET step == SplitStep(txt, size, ov, st, prev)
         IN  IF step.stop THEN Returned(Append(chunks, step.chunk))
             ELSE IF step.start = st /\ step.previous_end = prev THEN Hang
             ELSE SplitLoop(txt, size, ov, step.start, step.previous_end,
                            Append(chunks, step.chunk))

split_with_overlap(txt, size, ov) == SplitLoop(txt, size, ov, 0, <<>>, <<>>)

RECURSIVE ChunkIn(_, _, _, _)
RECURSIVE ProcessParts(_, _, _, _, _, _, _, _, _)

\* The for loop of _recursively_process_parts from part number i on, with the
\* loop state (chunks, current_chunk, previous_chunk_end).  active holds the texts
\* of the calls of chunk() in progress.
ProcessParts(active, parts, i, separator, size, ov, chunks, current_chunk, previous_chunk_end) ==
    IF i > Len(parts)
    THEN Returned(IF current_chunk # <<>>
                  THEN Append(chunks, create_chunk(current_chunk))
                  ELSE chunks)
    ELSE
      LET part == strip(parts[i]) IN
      IF part = <<>>
      THEN ProcessParts(active, parts, i + 1, separator, size, ov,
                        chunks, current_chunk, previous_chunk_end)
      ELSE IF Len(part) > size
      THEN LET part_to_chunk ==
                   (IF previous_chunk_end # <<>>
                    THEN previous_chunk_end \o separator ELSE <<>>) \o part
               sub == ChunkIn(active, part_to_chunk, size, ov)
           IN  IF sub.outcome # "returned" THEN sub
               ELSE IF sub.chunks = <<>>
               THEN ProcessParts(active, parts, i + 1, separator, size, ov,
                                 chunks, current_chunk, previous_chunk_end)
               ELSE ProcessParts(active, parts, i + 1, separator, size, ov,
                        chunks \o sub.chunks, current_chunk,
                        OverlapTail(sub.chunks[Len(sub.chunks)].content, ov))
      ELSE LET potential_chunk ==
                   current_chunk
                   \o (IF current_chunk # <<>> THEN separator ELSE <<>>) \o part
           IN  IF Len(potential_chunk) > size
               THEN LET flushed == current_chunk # <<>>
                        prev == IF flushed THEN OverlapTail(current_chunk, ov)
                                ELSE previous_chunk_end
                    IN  ProcessParts(active, parts, i + 1, separator, size, ov,
                            IF flushed
                            THEN Append(chunks, create_chunk(current_chunk))
                            ELSE chunks,
                            (IF prev # <<>> THEN prev \o separator ELSE <<>>) \o part,
                            prev)
               ELSE ProcessParts(active, parts, i + 1, separator, size, ov,
                                 chunks, potential_chunk, previous_chunk_end)

recursively_process_parts(active, parts, separator, size, ov) ==
    ProcessParts(active, parts, 1, separator, size, ov, <<>>, <<>>, <<>>)

\* The for loop over splitters of chunk(), from splitter number k on.
RECURSIVE TrySplitters(_, _, _, _, _)
TrySplitters(active, txt, k, size, ov) ==
    IF k > Len(splitters) THEN split_with_overlap(txt, size, ov)
    ELSE LET parts == split(txt, splitters[k])
         IN  IF Len(parts) > 1
             THEN recursively_process_parts(active, parts, splitters[k], size, ov)
             ELSE TrySplitters(active, txt, k + 1, size, ov)

\* if len(text) <= chunk_size: return [self._create_chunk(text)]
FitsOneChunkOffByOne(stripped, size) == Len(stripped) < size
FitsOneChunk(stripped, size) == Len(stripped) <= size

\* chunk() called while the calls for the texts in active are in progress.  Below
\* the top call the overlap is already clamped, so a nested call with the stripped
\* text of a call in progress repeats that call.
ChunkIn(active, txt, size, ov) ==
    LET stripped == strip(txt)
        clamped == ClampOverlap(size, ov)
    IN  IF FitsOneChunk(stripped, size) THEN Returned(<<create_chunk(stripped)>>)
        ELSE IF stripped \in active THEN RecursionError
        ELSE TrySplitters(active \cup {stripped}, stripped, 1, size, clamped)

chunk(txt, size, ov) == ChunkIn({}, txt, size, ov)

-----------------------------------------------------------------------------
(* One call of chunk(text, chunk_size, overlap) *)

InitChunk ==
    /\ text \in StrUpTo(MaxLen)
    /\ chunk_size \in 1..MaxChunkSize
    /\ overlap \in 0..MaxOverlap
    /\ cpc = "call"
    /\ result = <<>>

ChunkCall ==
    /\ cpc = "call"
    /\ LET r == chunk(text, chunk_size, overlap)
       IN  /\ cpc' = r.outcome
           /\ result' = r.chunks
    /\ UNCHANGED <<text, chunk_size, overlap>>

IdleChunk ==
    /\ text = <<>> /\ chunk_size = 1 /\ overlap = 0 /\ cpc = "idle" /\ result = <<>>

-----------------------------------------------------------------------------
(* The while loop of _split_with_overlap, one iteration per step.  chunk() calls
   it with a stripped text longer than chunk_size in which no splitter occurs,
   and with the clamped overlap. *)

SeparatorFree(s) == \A k \in 1..Len(splitters) : Len(split(s, splitters[k])) = 1

InitSlice ==
    /\ s_size \in 1..MaxChunkSize
    /\ s_overlap \in {ClampOverlap(s_size, ov) : ov \in 0..MaxOverlap}
    /\ s_text \in {s \in StrUpTo(MaxLen) :
                      s = strip(s) /\ Len(s) > s_size /\ SeparatorFree(s)}
    /\ start = 0
    /\ previous_end = <<>>
    /\ s_chunks = <<>>
    /\ s_pc = "loop"
    /\ s_iter = 0

\* while start < length: ... if start <= 0 or start >= length: break
SplitIteration ==
    /\ s_pc = "loop"
    /\ s_iter < MaxIter
    /\ IF start < Len(s_text)
       THEN LET step == SplitStep(s_text, s_size, s_overlap, start, previous_end)
            IN  /\ s_chunks' = Append(s_chunks, step.chunk)
                /\ previous_end' = step.previous_end
                /\ start' = step.start
                /\ s_pc' = IF step.stop THEN "return" ELSE "loop"
       ELSE /\ s_pc' = "return"
            /\ UNCHANGED <<s_chunks, previous_end, start>>
    /\ s_iter' = s_iter + 1
    /\ UNCHANGED <<s_text, s_size, s_overlap>>

IdleSlice ==
    /\ s_text = <<>> /\ s_size = 1 /\ s_overlap = 0 /\ start = 0
    /\ previous_end = <<>> /\ s_chunks = <<>> /\ s_pc = "idle" /\ s_iter = 0

-----------------------------------------------------------------------------
(* EmbeddingService *)

MinChunkLen == 5            \* len(chunk.strip()) >= 5
DefaultMaxRetries == 3      \* max_retries or 3
DefaultConcurrency == 2     \* concurrency or 2
LargeFileChunks == 200      \* if total > 200
MediumFileChunks == 100     \* elif total > 100
SmallFileConcurrencyCap == 3    \* min(self.concurrency, 3)

\* `arg or default`: None and 0 give the default
OrDefault(arg, default) == IF arg = 0 THEN default ELSE arg

\* chunk and chunk.strip() and len(chunk.strip()) >= 5
IsValidChunkUnstripped(c) == c # <<>> /\ strip(c) # <<>> /\ Len(c) >= MinChunkLen
IsValidChunk(c) == c # <<>> /\ strip(c) # <<>> /\ Len(strip(c)) >= MinChunkLen

\* valid_chunks = [chunk for chunk in chunks if ...]
ValidChunks(chunks) == SelectSeq(chunks, IsValidChunk)

\* effective_concurrency, from total = len(chunks) and self.concurrency
EffectiveConcurrencyUncapped(total, concurrency) ==
    IF total > LargeFileChunks THEN 1
    ELSE IF total > MediumFileChunks THEN 2
    ELSE concurrency
EffectiveConcurrencyInclusive(total, concurrency) ==
    IF total >= LargeFileChunks THEN 1
    ELSE IF total >= MediumFileChunks THEN 2
    ELSE Min(concurrency, SmallFileConcurrencyCap)
EffectiveConcurrency(total, concurrency) ==
    IF total > LargeFileChunks THEN 1
    ELSE IF total > MediumFileChunks THEN 2
    ELSE Min(concurrency, SmallFileConcurrencyCap)

\* while attempts < self.max_retries / if attempts < self.max_retries
MayRetryOneMore(attempts, max_retries) == attempts <= max_retries
MayRetry(attempts, max_retries) == attempts < max_retries

NoError == [kind |-> "none", attempt |-> 0, backend |-> "none"]
\* the exception a backend call raises during the given attempt
BackendError(attempt, backend) ==
    [kind |-> "backend", attempt |-> attempt, backend |-> backend]
\* RuntimeError(f"Failed to generate embedding after ... attempts: {last_exception}")
RetriesExhausted(last_exception) ==
    [kind |-> "RuntimeError", attempt |-> last_exception.attempt,
     backend |-> last_exception.backend]

\* the vector a backend returns for a chunk
Vector(c, backend) == [of |-> c, via |-> backend]
NoVector == [of |-> <<>>, via |-> "none"]

\* the coroutine _generate_single_embedding_with_retry(None, chunk), not yet run
NewTask(c) ==
    [chunk |-> c, st |-> "ready", attempts |-> 0, calls |-> 0, sleeps |-> 0,
     backends |-> <<>>, logged |-> <<>>,
     result |-> NoVector, last_exception |-> NoError, primary |-> NoError]

\* tasks = [self._generate_single_embedding_with_retry(None, chunk) for chunk in batch]
\* for the batch chunks[i:i + effective_concurrency]
BatchTasks(chunks, i, effective_concurrency) ==
    LET batch == Slice(chunks, i, i + effective_concurrency)
    IN  [k \in 1..Len(batch) |-> NewTask(batch[k])]

\* batch_embeddings = await asyncio.gather(*tasks): the results in the order of
\* the tasks, whatever the order they finished in
GatherInCompletionOrder(tasks, order) == [k \in 1..Len(order) |-> tasks[order[k]].result]
Gather(tasks, order) == [k \in 1..Len(tasks) |-> tasks[k].result]

\* the chunk strings handed to generate_embeddings
ChunkPool ==
    { <<>>,
      <<" ", " ", " ">>,
      <<"a", "a", "a", "a", " ">>,
      <<" ", "a", "a", "a", "a", "a">>,
      <<"a", ".", "a", ".", "a", ".">> }

\* every list of up to MaxChunks chunks of the pool, and one list of valid chunks
\* that is one chunk longer
ChunkLists ==
    UNION {[1..n -> ChunkPool] : n \in 0..MaxChunks}
        \cup { [i \in 1..(MaxChunks + 1) |-> <<"a", ".", "a", ".", "a", ".">>] }

InitEmbed ==
    /\ e_chunks \in ChunkLists
    /\ e_callback \in BOOLEAN
    /\ e_concurrency \in {OrDefault(c, DefaultConcurrency) : c \in 0..MaxConcurrencyArg}
    /\ e_max_retries \in {OrDefault(r, DefaultMaxRetries) : r \in 0..MaxRetriesArg}
    /\ e_provider \in {"ollama", "openai"}
    /\ e_pc = "call"
    /\ e_valid = <<>>
    /\ e_offset = 0
    /\ e_tasks = <<>>
    /\ e_order = <<>>
    /\ embeddings = <<>>
    /\ processed = 0
    /\ e_progress = <<>>
    /\ e_requests = 0
    /\ e_error = NoError

\* generate_embeddings up to asyncio.run, and _generate_embeddings_async up to its
\* first await
GenerateEmbeddings ==
    /\ e_pc = "call"
    /\ LET valid == ValidChunks(e_chunks)
       IN  IF e_chunks = <<>> \/ valid = <<>>
           THEN /\ e_pc' = "returned"
                /\ UNCHANGED <<e_valid, e_tasks>>
           ELSE /\ e_pc' = "gather"
                /\ e_valid' = valid
                /\ e_tasks' = BatchTasks(valid, 0,
                                  EffectiveConcurrency(Len(valid), e_concurrency))
    /\ UNCHANGED <<embedConfig, e_offset, e_order, embeddings, processed,
                   e_progress, e_requests, e_error>>

\* A task enters the while loop (after its backoff sleep, if any) and
\* _generate_single_embedding sends the request: to the direct Ollama client for
\* the provider 'ollama', through LiteLLM otherwise.
StartAttempt(k) ==
    /\ e_pc = "gather"
    /\ e_tasks[k].st \in {"ready", "sleeping"}
    /\ MayRetry(e_tasks[k].attempts, e_max_retries)
    /\ e_tasks' = [e_tasks EXCEPT
            ![k].st = IF e_provider = "ollama" THEN "direct" ELSE "litellm",
            ![k].backends = IF e_provider = "ollama" THEN <<"direct">>
                            ELSE <<"litellm">>,
            ![k].calls = @ + 1]
    /\ e_requests' = e_requests + 1
    /\ UNCHANGED <<embedConfig, e_pc, e_valid, e_offset, e_order, embeddings,
                   processed, e_progress, e_error>>

\* The task's state after `return await self._generate_single_embedding(...)`
\* got the vector v: the loop is left and the task is done
AfterSuccessfulAttemptLooping(task, v) == [task EXCEPT !.st = "ready", !.result = v]
AfterSuccessfulAttempt(task, v) == [task EXCEPT !.st = "done", !.result = v]

\* The request in flight returns a vector: the task is done.
CallSucceeds(k) ==
    /\ e_pc = "gather"
    /\ e_tasks[k].st \in {"direct", "fallback", "litellm"}
    /\ e_tasks' = [e_tasks EXCEPT ![k] =
            AfterSuccessfulAttempt(e_tasks[k],
                Vector(e_tasks[k].chunk,
                       IF e_tasks[k].st = "direct" THEN "direct" ELSE "litellm"))]
    /\ e_order' = Append(e_order, k)
    /\ UNCHANGED <<embedConfig, e_pc, e_valid, e_offset, embeddings, processed,
                   e_progress, e_requests, e_error>>

\* The task's state after _generate_single_embedding raised err: the except
\* branch of the retry loop, which goes to asyncio.sleep(delay) when another
\* attempt is left
AfterFailedAttempt(task, err) ==
    LET attempts == task.attempts + 1
    IN  [task EXCEPT
            !.attempts = attempts,
            !.last_exception = err,
            !.sleeps = IF MayRetry(attempts, e_max_retries) THEN @ + 1 ELSE @,
            !.st = IF MayRetry(attempts, e_max_retries) THEN "sleeping" ELSE "failed"]

\* `raise e` in the handler of the fallback's failure: e is the exception of the
\* direct client
RaisedAfterFallbackItsOwn(primary, fallback_error) == fallback_error
RaisedAfterFallback(primary, fallback_error) == primary

\* The request in flight raises.  The direct client's failure sends the fallback
\* request through LiteLLM; the fallback's failure logs both errors in one
\* logger.error record (logged) and re-raises the direct client's
\* error; a LiteLLM failure of another provider is raised as it is.
CallFails(k) ==
    /\ e_pc = "gather"
    /\ e_tasks[k].st \in {"direct", "fallback", "litellm"}
    /\ LET task == e_tasks[k]
           attempt == task.attempts + 1
           after == IF task.st = "direct"
                    THEN [task EXCEPT !.st = "fallback",
                                      !.backends = Append(@, "litellm"),
                                      !.primary = BackendError(attempt, "direct")]
                    ELSE IF task.st = "fallback"
                    THEN AfterFailedAttempt(
                             [task EXCEPT !.logged =
                                  <<task.primary, BackendError(attempt, "litellm")>>],
                             RaisedAfterFallback(task.primary,
                                                 BackendError(attempt, "litellm")))
                    ELSE AfterFailedAttempt(
                             [task EXCEPT !.logged = <<BackendError(attempt, "litellm")>>],
                             BackendError(attempt, "litellm"))
       IN  /\ e_tasks' = [e_tasks EXCEPT ![k] = after]
           /\ e_requests' = IF task.st = "direct" THEN e_requests + 1 ELSE e_requests
           /\ e_error' = IF after.st = "failed" /\ e_error = NoError
                         THEN RetriesExhausted(after.last_exception)
                         ELSE e_error
    /\ UNCHANGED <<embedConfig, e_pc, e_valid, e_offset, e_order, embeddings,
                   processed, e_progress>>

\* gather raises the first exception of its tasks: _generate_embeddings_async and
\* generate_embeddings raise it, and asyncio.run cancels the tasks still running.
GatherRaises ==
    /\ e_pc = "gather"
    /\ e_error # NoError
    /\ e_pc' = "raised"
    /\ UNCHANGED <<embedConfig, e_valid, e_offset, e_tasks, e_order, embeddings,
                   processed, e_progress, e_requests, e_error>>

\* processed += len(batch); progress_callback(processed, total): the arguments
\* of the call
ProgressCallOfBatch(done_before, batch_len, total) == <<batch_len, total>>
ProgressCall(done_before, batch_len, total) == <<done_before + batch_len, total>>

\* await asyncio.gather(*tasks) returns once every task of the batch has returned
BatchAnyDone(tasks) == \E k \in 1..Len(tasks) : tasks[k].st = "done"
BatchDone(tasks) == \A k \in 1..Len(tasks) : tasks[k].st = "done"

\* Every task of the batch is done: gather returns, the results are appended,
\* progress is reported, and the call returns after the last batch.
GatherReturns ==
    /\ e_pc = "gather"
    /\ BatchDone(e_tasks)
    /\ LET total == Len(e_valid)
           done == processed + Len(e_tasks)
           last == e_offset + EffectiveConcurrency(total, e_concurrency) >= total
       IN  /\ embeddings' = embeddings \o Gather(e_tasks, e_order)
           /\ processed' = done
           /\ e_progress' = IF e_callback
                            THEN Append(e_progress,
                                        ProgressCall(processed, Len(e_tasks), total))
                            ELSE e_progress
           /\ e_pc' = IF last THEN "returned" ELSE "delay"
    /\ UNCHANGED <<embedConfig, e_valid, e_offset, e_tasks, e_order, e_requests, e_error>>

\* the exception a progress_callback raises
CallbackError == [kind |-> "callback", attempt |-> 0, backend |-> "none"]

\* The state of the call when gather has returned and progress_callback has
\* been called with the batch added to processed
AfterCallbackCall ==
    /\ embeddings' = embeddings \o Gather(e_tasks, e_order)
    /\ processed' = processed + Len(e_tasks)
    /\ e_progress' = Append(e_progress,
                            ProgressCall(processed, Len(e_tasks), Len(e_valid)))

\* Every task of the batch is done and progress_callback(processed, total)
\* raises: nothing catches it, _generate_embeddings_async and
\* generate_embeddings raise it.
CallbackRaises ==
    /\ e_pc = "gather"
    /\ BatchDone(e_tasks)
    /\ e_callback
    /\ AfterCallbackCall
    /\ e_error' = CallbackError
    /\ e_pc' = "callback_raised"
    /\ UNCHANGED <<embedConfig, e_valid, e_offset, e_tasks, e_order, e_requests>>

\* Every task of the batch is done and progress_callback(processed, total) does
\* not return: it is called inside the coroutine, which waits for it.
CallbackBlocks ==
    /\ e_pc = "gather"
    /\ BatchDone(e_tasks)
    /\ e_callback
    /\ AfterCallbackCall
    /\ e_pc' = "callback_blocked"
    /\ UNCHANGED <<embedConfig, e_valid, e_offset, e_tasks, e_order, e_requests,
                   e_error>>

\* await asyncio.sleep(batch_delay) is over: the tasks of the next batch are made.
NextBatch ==
    /\ e_pc = "delay"
    /\ LET ec == EffectiveConcurrency(Len(e_valid), e_concurrency)
       IN  /\ e_offset' = e_offset + ec
           /\ e_tasks' = BatchTasks(e_valid, e_offset + ec, ec)
    /\ e_order' = <<>>
    /\ e_pc' = "gather"
    /\ UNCHANGED <<embedConfig, e_valid, embeddings, processed, e_progress,
                   e_requests, e_error>>

IdleEmbed ==
    /\ e_chunks = <<>> /\ e_callback = FALSE /\ e_concurrency = DefaultConcurrency
    /\ e_max_retries = DefaultMaxRetries /\ e_provider = "ollama" /\ e_pc = "idle"
    /\ e_valid = <<>> /\ e_offset = 0 /\ e_tasks = <<>> /\ e_order = <<>>
    /\ embeddings = <<>> /\ processed = 0 /\ e_progress = <<>> /\ e_requests = 0
    /\ e_error = NoError

-----------------------------------------------------------------------------
(* Document ingestion: document_upload's dispatch, _process_document_internal,  *)
(* the Celery task process_document and process_document_sync.                  *)
(* A message or exception text is represented by its length.                    *)

MinTextLen == 10            \* len(text.strip()) < 10
ErrorCap == 10000           \* len(error_message) > 10000
TruncSuffixLen == 15        \* len("... (truncated)")
CeleryMaxRetries == 3       \* @celery_app.task(bind=True, max_retries=3)
HealthMsgLen == 77          \* len("Ollama is not available or not responding. ...")
FileNotFoundPrefixLen == 16 \* len("File not found: ")
ExtractPrefixLen == 38      \* len("Failed to extract text from document: ")
ValidateMsgLen == 142       \* len of the text-validation message without the number
EmbedPrefixLen == 47        \* len("Failed to generate embeddings after 3 retries: ")
StartFailedPrefixLen == 28  \* len("Failed to start processing: ")

\* error_message = None, and an error_message of the given length
NullMessage == [null |-> TRUE, len |-> 0]
Message(len) == [null |-> FALSE, len |-> len]

\* no exception, and the exception raised by a stage with str(e) of the given length
NoException == [stage |-> "none", len |-> 0]
Exception(stage, len) == [stage |-> stage, len |-> len]

\* lengths of str(e) for the exceptions raised by the libraries and the database
\* (str(MemoryError()) is '')
ErrLens == {0, ShortErrLen, ErrorCap, ErrorCap + 1}

\* error_message = str(e); if len(error_message) > 10000:
\*     error_message = error_message[:10000] + "... (truncated)"
Truncate(len) == IF len > ErrorCap THEN ErrorCap + TruncSuffixLen ELSE len

\* len(str(n)) for the lengths of the texts explored
Digits(n) == IF n < 10 THEN 1 ELSE 2

\* if not text or len(text.strip()) < 10
TextTooShort(txt) == txt = <<>> \/ Len(strip(txt)) < MinTextLen

\* document.status = "processing" (Mark as processing)
StatusOnStartPending == "pending"
StatusOnStart == "processing"

Rep(c, n) == [i \in 1..n |-> c]

\* extracted texts: empty, 5 characters, 8 characters inside blanks, 10 characters,
\* 10 characters inside white space
TextPool ==
    { <<>>,
      Rep("a", 5),
      <<" ", " ">> \o Rep("a", 8) \o <<" ", " ">>,
      Rep("a", 10),
      <<" ">> \o Rep("a", 10) \o <<"\n">> }

\* The state right after document_upload has created the Document record
InitIngest ==
    /\ d_status = "pending"
    /\ d_error = NullMessage
    /\ d_num_chunks = 0
    /\ d_rows = 0
    /\ d_text \in TextPool
    /\ d_provider \in {"ollama", "openai"}
    /\ w_mode = "none"
    /\ w_pc = "created"
    /\ w_retries = 0
    /\ w_exc = NoException
    /\ w_n = 0
    /\ w_count = 0
    /\ w_reruns = 0

\* document_upload finds a Celery worker: process_document.delay(document.id)
DispatchCelery ==
    /\ w_pc = "created"
    /\ w_mode' = "celery"
    /\ w_pc' = "queued"
    /\ UNCHANGED <<docVars, ingestConfig, w_retries, w_exc, w_n, w_count, w_reruns>>

\* document_upload finds no worker: manage.py process_document in a subprocess,
\* which calls process_document_sync
DispatchSubprocess ==
    /\ w_pc = "created"
    /\ w_mode' = "sync"
    /\ w_pc' = "queued"
    /\ UNCHANGED <<docVars, ingestConfig, w_retries, w_exc, w_n, w_count, w_reruns>>

\* Starting the job raises: the view marks the document failed, no run is started
DispatchFails ==
    /\ w_pc = "created"
    /\ \E len \in ErrLens :
          d_error' = Message(StartFailedPrefixLen + len)
    /\ d_status' = "failed"
    /\ w_pc' = "notstarted"
    /\ UNCHANGED <<d_num_chunks, d_rows, ingestConfig, w_mode, w_retries, w_exc,
                   w_n, w_count, w_reruns>>

\* A run begins: Document.objects.get, then the health check of the 'ollama'
\* provider fails: the document is marked failed and RuntimeError is raised
\* inside the try block.
HealthCheckFails ==
    /\ w_pc = "queued"
    /\ d_provider = "ollama"
    /\ d_status' = "failed"
    /\ d_error' = Message(HealthMsgLen)
    /\ w_exc' = Exception("health", HealthMsgLen)
    /\ w_pc' = "handler"
    /\ w_n' = 0
    /\ w_count' = 0
    /\ UNCHANGED <<d_num_chunks, d_rows, ingestConfig, w_mode, w_retries, w_reruns>>

\* A run begins: Document.objects.get, the health check passes (or the provider
\* is not 'ollama'), and the document is marked as processing.
MarkProcessing ==
    /\ w_pc = "queued"
    /\ d_status' = StatusOnStart
    /\ d_error' = NullMessage
    /\ w_exc' = NoException
    /\ w_pc' = "file"
    /\ w_n' = 0
    /\ w_count' = 0
    /\ UNCHANGED <<d_num_chunks, d_rows, ingestConfig, w_mode, w_retries, w_reruns>>

\* The current run raises e inside the try block: control is in `except Exception`
Raise(e) ==
    /\ w_exc' = e
    /\ w_pc' = "handler"

\* os.path.exists(file_path) is false: FileNotFoundError(f"File not found: {file_path}")
FileNotFound ==
    /\ w_pc = "file"
    /\ \E len \in ErrLens \ {0} : Raise(Exception("file", FileNotFoundPrefixLen + len))
    /\ UNCHANGED <<docVars, ingestConfig, w_mode, w_retries, w_n, w_count, w_reruns>>

\* extractor.extract raises: RuntimeError(f"Failed to extract text from document: {str(e)}")
ExtractRaises ==
    /\ w_pc = "file"
    /\ \E len \in ErrLens : Raise(Exception("extract", ExtractPrefixLen + len))
    /\ UNCHANGED <<docVars, ingestConfig, w_mode, w_retries, w_n, w_count, w_reruns>>

\* extractor.extract returns the text of the file
ExtractReturns ==
    /\ w_pc = "file"
    /\ w_pc' = "validate"
    /\ UNCHANGED <<docVars, ingestConfig, w_mode, w_retries, w_exc, w_n, w_count,
                   w_reruns>>

\* Validate extracted text
ValidateText ==
    /\ w_pc = "validate"
    /\ IF TextTooShort(d_text)
       THEN Raise(Exception("validate", ValidateMsgLen + Digits(Len(d_text))))
       ELSE w_pc' = "chunk" /\ UNCHANGED w_exc
    /\ UNCHANGED <<docVars, ingestConfig, w_mode, w_retries, w_n, w_count, w_reruns>>

\* chunker.chunk(text) returns, and n of its chunks have 5 or more characters
\* after strip(): chunk_contents has n entries.  (A text of 10 or more characters
\* always gives at least one such chunk at the default chunk_size of 1500.)
ChunkReturns ==
    /\ w_pc = "chunk"
    /\ \E n \in 1..MaxDocChunks : w_n' = n
    /\ w_pc' = "embed"
    /\ UNCHANGED <<docVars, ingestConfig, w_mode, w_retries, w_exc, w_count, w_reruns>>

\* chunker.chunk(text) raises (MemoryError when the slicing loop never stops,
\* SoftTimeLimitExceeded under Celery): nothing wraps the exception
ChunkRaises ==
    /\ w_pc = "chunk"
    /\ \E len \in ErrLens : Raise(Exception("chunk", len))
    /\ UNCHANGED <<docVars, ingestConfig, w_mode, w_retries, w_n, w_count, w_reruns>>

\* chunker.chunk(text) never returns and the process is never stopped
ChunkHangs ==
    /\ w_pc = "chunk"
    /\ w_pc' = "hung"
    /\ UNCHANGED <<docVars, ingestConfig, w_mode, w_retries, w_exc, w_n, w_count,
                   w_reruns>>

\* embedding_service.generate_embeddings returns one vector per entry
EmbeddingsReturned ==
    /\ w_pc = "embed"
    /\ w_pc' = "store"
    /\ UNCHANGED <<docVars, ingestConfig, w_mode, w_retries, w_exc, w_n, w_count,
                   w_reruns>>

\* generate_embeddings raises:
\* RuntimeError(f"Failed to generate embeddings after {max_retries} retries: {str(e)}")
EmbeddingsRaise ==
    /\ w_pc = "embed"
    /\ \E len \in ErrLens : Raise(Exception("embed", EmbedPrefixLen + len))
    /\ UNCHANGED <<docVars, ingestConfig, w_mode, w_retries, w_n, w_count, w_reruns>>

\* The storing loop comes after generate_embeddings has returned
StoringReachedEarly(pc) == pc \in {"embed", "store"}
StoringReached(pc) == pc = "store"

\* One iteration of the storing loop: DocumentChunk.objects.create, count += 1
StoreChunk ==
    /\ StoringReached(w_pc)
    /\ w_count < w_n
    /\ d_rows' = d_rows + 1
    /\ w_count' = w_count + 1
    /\ UNCHANGED <<d_status, d_error, d_num_chunks, ingestConfig, w_mode, w_pc,
                   w_retries, w_exc, w_n, w_reruns>>

\* DocumentChunk.objects.create raises: no row is added, earlier rows stay
StoreRaises ==
    /\ w_pc = "store"
    /\ w_count < w_n
    /\ \E len \in ErrLens : Raise(Exception("store", len))
    /\ UNCHANGED <<docVars, ingestConfig, w_mode, w_retries, w_n, w_count, w_reruns>>

\* After the loop: count > 0, the document is updated and the function returns
Complete ==
    /\ w_pc = "store"
    /\ w_count = w_n
    /\ w_count # 0
    /\ d_status' = "completed"
    /\ d_num_chunks' = w_count
    /\ w_pc' = "returned"
    /\ UNCHANGED <<d_error, d_rows, ingestConfig, w_mode, w_retries, w_exc, w_n,
                   w_count, w_reruns>>

\* except Exception: the update of the document succeeds, then raise e
HandlerUpdates ==
    /\ w_pc = "handler"
    /\ d_status' = "failed"
    /\ d_error' = Message(Truncate(w_exc.len))
    /\ w_pc' = "raised"
    /\ UNCHANGED <<d_num_chunks, d_rows, ingestConfig, w_mode, w_retries, w_exc,
                   w_n, w_count, w_reruns>>

\* except Exception: Document.objects.get or document.save() raises in the
\* handler; update_error is logged and dropped, then raise e
HandlerUpdateFails ==
    /\ w_pc = "handler"
    /\ w_pc' = "raised"
    /\ UNCHANGED <<docVars, ingestConfig, w_mode, w_retries, w_exc, w_n, w_count,
                   w_reruns>>

\* process_document: self.retry(exc=e, countdown=60) queues the task again
CeleryRetry ==
    /\ w_pc = "raised"
    /\ w_mode = "celery"
    /\ w_retries < CeleryMaxRetries
    /\ w_retries' = w_retries + 1
    /\ w_pc' = "queued"
    /\ UNCHANGED <<docVars, ingestConfig, w_mode, w_exc, w_n, w_count, w_reruns>>

\* process_document: the retries are used up, self.retry raises e
CeleryGivesUp ==
    /\ w_pc = "raised"
    /\ w_mode = "celery"
    /\ w_retries >= CeleryMaxRetries
    /\ w_pc' = "dead"
    /\ UNCHANGED <<docVars, ingestConfig, w_mode, w_retries, w_exc, w_n, w_count,
                   w_reruns>>

\* No run is active for the document
NoActiveRun ==
    \/ w_pc \in {"notstarted", "returned", "dead"}
    \/ w_pc = "raised" /\ w_mode = "sync"

\* manage.py process_document <document_id> is run by hand on the document:
\* process_document_sync
Rerun ==
    /\ NoActiveRun
    /\ w_reruns < MaxReruns
    /\ w_reruns' = w_reruns + 1
    /\ w_mode' = "sync"
    /\ w_retries' = 0
    /\ w_pc' = "queued"
    /\ UNCHANGED <<docVars, ingestConfig, w_exc, w_n, w_count>>

IdleIngest ==
    /\ d_status = "pending" /\ d_error = NullMessage /\ d_num_chunks = 0
    /\ d_rows = 0 /\ d_text = <<>> /\ d_provider = "ollama" /\ w_mode = "none"
    /\ w_pc = "idle" /\ w_retries = 0 /\ w_exc = NoException /\ w_n = 0
    /\ w_count = 0 /\ w_reruns = 0

-----------------------------------------------------------------------------
(* The batch plan of _generate_embeddings_async for a list of total chunks *)

\* total = len(chunks) and self.concurrency, before the plan is made
InitPlan ==
    /\ c_total \in 1..MaxTotal
    /\ c_concurrency \in {OrDefault(c, DefaultConcurrency) : c \in 0..MaxConcurrencyArg}
    /\ c_effective = 0
    /\ c_batches = <<>>
    /\ c_pc = "call"

\* batches = [chunks[i:i + effective_concurrency]
\*            for i in range(0, total, effective_concurrency)], as batch lengths
BatchLengths(total, effective_concurrency) ==
    LET n == (total + effective_concurrency - 1) \div effective_concurrency
    IN  [b \in 1..n |-> Min(effective_concurrency,
                            total - (b - 1) * effective_concurrency)]

\* _generate_embeddings_async from its first line to the list of batches
PlanBatches ==
    /\ c_pc = "call"
    /\ LET ec == EffectiveConcurrency(c_total, c_concurrency)
       IN  /\ c_effective' = ec
           /\ c_batches' = BatchLengths(c_total, ec)
    /\ c_pc' = "planned"
    /\ UNCHANGED <<c_total, c_concurrency>>

IdlePlan ==
    /\ c_total = 0 /\ c_concurrency = DefaultConcurrency /\ c_effective = 0
    /\ c_batches = <<>> /\ c_pc = "idle"

-----------------------------------------------------------------------------
(* One chat turn: chat_stream and its generator generate_response (app/views.py) *)

\* contents of the messages of a request: empty, 2 characters, 5 characters
ContentPool == { <<>>, Rep("a", 2), Rep("a", 5) }

\* a message of the request
ChatMsg(role, content) == [role |-> role, content |-> content]
MessagePool == {ChatMsg(r, c) : r \in {"user", "assistant"}, c \in ContentPool}
MessageLists == UNION {[1..n -> MessagePool] : n \in 0..MaxMessages}

\* last_question = None
NoQuestion == [found |-> FALSE, content |-> <<>>]

\* for msg in reversed(messages): if msg.get('role') == 'user':
\*     last_question = msg.get('content', ''); break
RECURSIVE LastQuestionFrom(_, _)
LastQuestionFrom(messages, i) ==
    IF i = 0 THEN NoQuestion
    ELSE IF messages[i].role = "user"
         THEN [found |-> TRUE, content |-> messages[i].content]
         ELSE LastQuestionFrom(messages, i - 1)

LastQuestionAnyRole(messages) ==
    IF messages = <<>> THEN NoQuestion
    ELSE [found |-> TRUE, content |-> messages[Len(messages)].content]
LastQuestion(messages) == LastQuestionFrom(messages, Len(messages))

\* not last_question
NoLastQuestion(q) == ~q.found \/ q.content = <<>>

\* The request as chat_stream receives it
InitChat ==
    /\ q_messages \in MessageLists
    /\ q_session_id \in {"none", "own", "unknown"}
    /\ q_document_id \in {"none", "completed", "processing", "unknown"}
    /\ t_pc = "received"
    /\ t_response = "none"
    /\ t_scope = "none"
    /\ t_failed_at = "none"
    /\ t_events = <<>>
    /\ t_calls = <<>>
    /\ t_fragments = 0
    /\ t_emitted = <<>>
    /\ t_forwarded = <<>>
    /\ t_full_response = <<>>
    /\ t_saved = <<>>
    /\ t_message_count = 0

\* the events the generator has sent once it reports an error
ErrorEventsNone(events) == events
ErrorEvents(events) == Append(events, "error")

\* The generator yields an error event and ends, in the given stage: an explicit
\* error return, or an exception caught by `except Exception`
Fail(stage) ==
    /\ t_events' = ErrorEvents(t_events)
    /\ t_failed_at' = stage
    /\ t_pc' = "failed"

\* chat_stream up to its return: 400 without a last user question, the
\* streaming response otherwise
ChatStream ==
    /\ t_pc = "received"
    /\ IF NoLastQuestion(LastQuestion(q_messages))
       THEN t_response' = "400" /\ t_pc' = "rejected"
       ELSE t_response' = "stream" /\ t_pc' = "scope"
    /\ UNCHANGED <<chatRequest, t_scope, t_failed_at, t_events, t_calls,
                   t_fragments, streamVars, t_saved, t_message_count>>

\* generate_response determines the chat type: the session when session_id is
\* given, else the document when document_id is given, else an error event.
\* get_object_or_404 raises for an id that is not the caller's.
ResolveScope ==
    /\ t_pc = "scope"
    /\ IF q_session_id # "none"
       THEN IF q_session_id = "own"
            THEN t_scope' = "session" /\ t_pc' = "embedding"
                 /\ UNCHANGED <<t_events, t_failed_at>>
            ELSE Fail("scope") /\ UNCHANGED t_scope
       ELSE IF q_document_id = "completed"
            THEN t_scope' = "document" /\ t_pc' = "embedding"
                 /\ UNCHANGED <<t_events, t_failed_at>>
            ELSE Fail("scope") /\ UNCHANGED t_scope
    /\ UNCHANGED <<chatRequest, t_response, t_calls, t_fragments, streamVars, t_saved,
                   t_message_count>>

\* the content of the last user message
Question == LastQuestion(q_messages).content

\* 1. Query embedding, cache hit: cache.get returns the vector.  Only a question
\* that was embedded before is in the cache.
CacheHit ==
    /\ t_pc = "embedding"
    /\ IsValidChunk(Question)
    /\ t_calls' = Append(t_calls, "cache.get")
    /\ t_pc' = "retrieving"
    /\ UNCHANGED <<chatRequest, t_response, t_scope, t_failed_at, t_events,
                   t_fragments, streamVars, t_saved, t_message_count>>

\* 1. Query embedding, cache miss: generate_embeddings([last_question])[0]
\* returns the vector, which is written to the cache
CacheMissEmbedded ==
    /\ t_pc = "embedding"
    /\ IsValidChunk(Question)
    /\ t_calls' = t_calls \o <<"cache.get", "embed", "cache.set">>
    /\ t_pc' = "retrieving"
    /\ UNCHANGED <<chatRequest, t_response, t_scope, t_failed_at, t_events,
                   t_fragments, streamVars, t_saved, t_message_count>>

\* 1. Query embedding, cache miss: generate_embeddings filters the question out
\* and returns [], so [0] raises IndexError
QuestionFilteredOut ==
    /\ t_pc = "embedding"
    /\ ~IsValidChunk(Question)
    /\ t_calls' = Append(t_calls, "cache.get")
    /\ Fail("embedding")
    /\ UNCHANGED <<chatRequest, t_response, t_scope, t_fragments, streamVars, t_saved,
                   t_message_count>>

\* 1. Query embedding, cache miss: generate_embeddings raises
EmbeddingRaises ==
    /\ t_pc = "embedding"
    /\ IsValidChunk(Question)
    /\ t_calls' = t_calls \o <<"cache.get", "embed">>
    /\ Fail("embedding")
    /\ UNCHANGED <<chatRequest, t_response, t_scope, t_fragments, streamVars, t_saved,
                   t_message_count>>

\* 2. Vector search of a session whose user has no completed document: the
\* error event 'No documents available for chat', no query is executed
SearchNoDocuments ==
    /\ t_pc = "retrieving"
    /\ t_scope = "session"
    /\ Fail("retrieving")
    /\ UNCHANGED <<chatRequest, t_response, t_scope, t_calls, t_fragments, streamVars,
                   t_saved, t_message_count>>

\* 2. Vector search returns the candidate rows
SearchReturns ==
    /\ t_pc = "retrieving"
    /\ t_calls' = Append(t_calls, "search")
    /\ t_pc' = "assembling"
    /\ UNCHANGED <<chatRequest, t_response, t_scope, t_failed_at, t_events,
                   t_fragments, streamVars, t_saved, t_message_count>>

\* 2. Vector search raises
SearchRaises ==
    /\ t_pc = "retrieving"
    /\ t_calls' = Append(t_calls, "search")
    /\ Fail("retrieving")
    /\ UNCHANGED <<chatRequest, t_response, t_scope, t_fragments, streamVars, t_saved,
                   t_message_count>>

\* 3.-6. The context and the messages for the model are built and
\* llm_provider.chat(..., stream=True) is called
ContextAssembled ==
    /\ t_pc = "assembling"
    /\ t_calls' = Append(t_calls, "completion")
    /\ t_pc' = "streaming"
    /\ UNCHANGED <<chatRequest, t_response, t_scope, t_failed_at, t_events,
                   t_fragments, streamVars, t_saved, t_message_count>>

\* 3.-6. Building the context or getting the provider raises
AssemblyRaises ==
    /\ t_pc = "assembling"
    /\ Fail("assembling")
    /\ UNCHANGED <<chatRequest, t_response, t_scope, t_calls, t_fragments, streamVars,
                   t_saved, t_message_count>>

\* the contents of the data items of the provider: text, or nothing
FragmentPool == { <<>>, <<"a">>, <<".", "a">> }

\* full_response += content
AddToResponseInFront(full_response, content) == content \o full_response
AddToResponse(full_response, content) == full_response \o content

\* The provider sends a data item.  `if content:` one with content is added to
\* full_response and forwarded as a content event; one without is passed over
StreamContent ==
    /\ t_pc = "streaming"
    /\ Len(t_emitted) < MaxFragments
    /\ \E content \in FragmentPool :
          /\ t_emitted' = Append(t_emitted, content)
          /\ IF content # <<>>
             THEN /\ t_fragments' = t_fragments + 1
                  /\ t_full_response' = AddToResponse(t_full_response, content)
                  /\ t_forwarded' = Append(t_forwarded, content)
                  /\ t_events' = Append(t_events, "content")
             ELSE UNCHANGED <<t_fragments, t_full_response, t_forwarded, t_events>>
    /\ UNCHANGED <<chatRequest, t_pc, t_response, t_scope, t_failed_at, t_calls,
                   t_saved, t_message_count>>

\* The provider raises while streaming: the error event, and no thread is started
StreamRaises ==
    /\ t_pc = "streaming"
    /\ Fail("streaming")
    /\ UNCHANGED <<chatRequest, t_response, t_scope, t_calls, t_fragments, streamVars, t_saved,
                   t_message_count>>

\* The stream ends: the thread running save_messages_async is started
StreamEnds ==
    /\ t_pc = "streaming"
    /\ t_pc' = "persisting"
    /\ UNCHANGED <<chatRequest, t_response, t_scope, t_failed_at, t_events, t_calls,
                   t_fragments, streamVars, t_saved, t_message_count>>

\* ChatMessage.objects.create(session=session, document=document, role=...):
\* session and document are the objects the scope resolution has bound, not the
\* identifiers of the request
SavedMessageOfRequest(role) ==
    [role |-> role, session |-> q_session_id # "none",
     document |-> q_document_id # "none",
     content |-> IF role = "user" THEN Question ELSE t_full_response]
SavedMessage(role) ==
    [role |-> role, session |-> t_scope = "session", document |-> t_scope = "document",
     content |-> IF role = "user" THEN Question ELSE t_full_response]

\* save_messages_async runs to its end: both messages are created and the
\* statistics of the session are updated
SaveMessages ==
    /\ t_pc = "persisting"
    /\ t_saved' = t_saved \o <<SavedMessage("user"), SavedMessage("assistant")>>
    /\ t_message_count' = IF t_scope = "session" THEN Len(t_saved) + 2
                          ELSE t_message_count
    /\ t_pc' = "done"
    /\ UNCHANGED <<chatRequest, t_response, t_scope, t_failed_at, t_events, t_calls,
                   t_fragments, streamVars>>

\* except Exception as e: logger.error(...) in save_messages_async: the events
\* of the response after the thread has caught its exception
EventsAfterSaveErrorReported(events) == Append(events, "error")
EventsAfterSaveError(events) == events

\* save_messages_async raises after creating k of its messages: the exception is
\* logged, the statistics are not updated
SaveFails ==
    /\ t_pc = "persisting"
    /\ t_events' = EventsAfterSaveError(t_events)
    /\ \E k \in 0..2 :
          t_saved' = t_saved \o SubSeq(<<SavedMessage("user"), SavedMessage("assistant")>>, 1, k)
    /\ t_pc' = "done"
    /\ UNCHANGED <<chatRequest, t_response, t_scope, t_failed_at, t_calls,
                   t_fragments, streamVars, t_message_count>>

IdleChat ==
    /\ q_messages = <<>> /\ q_session_id = "none" /\ q_document_id = "none"
    /\ t_pc = "idle" /\ t_response = "none" /\ t_scope = "none"
    /\ t_failed_at = "none" /\ t_events = <<>> /\ t_calls = <<>>
    /\ t_fragments = 0 /\ t_saved = <<>> /\ t_message_count = 0
    /\ t_emitted = <<>> /\ t_forwarded = <<>> /\ t_full_response = <<>>

-----------------------------------------------------------------------------
(* TokenEstimationService, and the selection of context chunks in             *)
(* generate_response (app/views.py, "3. Token management")                    *)

contextVars == <<k_candidates, k_max_context_tokens, k_prompt_tokens, k_available,
                 k_selected, k_used_tokens, k_sources, k_pc>>

\* TokenEstimationService.estimate_tokens
estimate_tokens_floor(txt) ==
    IF txt = <<>> \/ strip(txt) = <<>> THEN 0 ELSE Len(txt) \div 4
estimate_tokens(txt) ==
    IF txt = <<>> \/ strip(txt) = <<>> THEN 0 ELSE (Len(txt) + 3) \div 4

\* TokenEstimationService.would_exceed_limit
would_exceed_limit(current_tokens, text_to_add, max_tokens) ==
    LET additional_tokens == estimate_tokens(text_to_add)
    IN  current_tokens + additional_tokens > max_tokens

\* "\n\n---\n\n"
\* sources_data[:5]
SourcesLimit == 5

Separator == <<"\n", "\n", "-", "-", "-", "\n", "\n">>

\* a candidate chunk: a DocumentChunk row with its similarity rank
Candidate(id, token_count, content) ==
    [id |-> id, token_count |-> token_count, content |-> content]

\* chunk_tokens: the pre-computed token_count when positive, else the estimate
ChunkTokens(c) ==
    IF c.token_count > 0 THEN c.token_count
    ELSE estimate_tokens(c.content)

\* if used_tokens + chunk_tokens + separator_tokens > available: break
ExceedsWithoutSeparator(used_tokens, chunk_tokens, separator_tokens, available) ==
    used_tokens + chunk_tokens > available
Exceeds(used_tokens, chunk_tokens, separator_tokens, available) ==
    used_tokens + chunk_tokens + separator_tokens > available

\* the loop `for chunk in candidate_chunks` from the i-th candidate on: the
\* indices selected and used_tokens
RECURSIVE SelectFromSkipping(_, _, _, _, _)
SelectFromSkipping(candidate_chunks, i, selected, used_tokens, available) ==
    IF i > Len(candidate_chunks)
    THEN [selected |-> selected, used_tokens |-> used_tokens]
    ELSE LET chunk_tokens == ChunkTokens(candidate_chunks[i])
             separator_tokens == estimate_tokens(Separator)
         IN  IF Exceeds(used_tokens, chunk_tokens, separator_tokens, available)
             THEN SelectFromSkipping(candidate_chunks, i + 1, selected, used_tokens,
                                     available)
             ELSE SelectFromSkipping(candidate_chunks, i + 1, Append(selected, i),
                                     used_tokens + chunk_tokens + separator_tokens,
                                     available)
RECURSIVE SelectFrom(_, _, _, _, _)
SelectFrom(candidate_chunks, i, selected, used_tokens, available) ==
    IF i > Len(candidate_chunks)
    THEN [selected |-> selected, used_tokens |-> used_tokens]
    ELSE LET chunk_tokens == ChunkTokens(candidate_chunks[i])
             separator_tokens == estimate_tokens(Separator)
         IN  IF Exceeds(used_tokens, chunk_tokens, separator_tokens, available)
             THEN [selected |-> selected, used_tokens |-> used_tokens]
             ELSE SelectFrom(candidate_chunks, i + 1, Append(selected, i),
                             used_tokens + chunk_tokens + separator_tokens, available)

\* reserved = base_tokens + user_tokens + int(max_context_tokens * 0.2)
\* available = max_context_tokens - reserved
Available(max_context_tokens, prompt_tokens) ==
    max_context_tokens - (prompt_tokens + (max_context_tokens * 2) \div 10)

\* the contents and stored token counts of the chunks explored
CandidateContents == { Rep("a", 5), Rep("a", 9) }
CandidateCounts == {0, 2, 3}
CandidateLists ==
    UNION { { [i \in 1..n |-> Candidate(i, tc[i], ct[i])] :
                tc \in [1..n -> CandidateCounts], ct \in [1..n -> CandidateContents] } :
            n \in 0..MaxCandidates }

\* The candidates of the vector search, in descending similarity, and the budget
InitContext ==
    /\ k_candidates \in CandidateLists
    /\ k_max_context_tokens \in 0..MaxContextTokens
    /\ k_prompt_tokens \in 0..MaxPromptTokens
    /\ k_available = 0
    /\ k_selected = <<>>
    /\ k_used_tokens = 0
    /\ k_sources = <<>>
    /\ k_pc = "candidates"

\* "3. Token management" of generate_response, up to selected_chunks
SelectChunks ==
    /\ k_pc = "candidates"
    /\ LET available == Available(k_max_context_tokens, k_prompt_tokens)
           r == SelectFrom(k_candidates, 1, <<>>, 0, available)
       IN  /\ k_available' = available
           /\ k_selected' = r.selected
           /\ k_used_tokens' = r.used_tokens
    /\ k_pc' = "selected"
    /\ UNCHANGED <<k_candidates, k_max_context_tokens, k_prompt_tokens, k_sources>>

\* sources_data: one entry for every row of the vector search, in its order
sources_data(candidate_chunks) ==
    [i \in 1..Len(candidate_chunks) |-> [chunk_id |-> candidate_chunks[i].id]]

\* sources=sources_data[:5] of the assistant message
PersistedSources(candidate_chunks, selected) ==
    Slice(sources_data(candidate_chunks), 0, SourcesLimit)

\* save_messages_async creates the assistant message with its sources
SaveSources ==
    /\ k_pc = "selected"
    /\ k_sources' = PersistedSources(k_candidates, k_selected)
    /\ k_pc' = "saved"
    /\ UNCHANGED <<k_candidates, k_max_context_tokens, k_prompt_tokens, k_available,
                   k_selected, k_used_tokens>>

IdleContext ==
    /\ k_candidates = <<>> /\ k_max_context_tokens = 0 /\ k_prompt_tokens = 0
    /\ k_available = 0 /\ k_selected = <<>> /\ k_used_tokens = 0 /\ k_pc = "idle"
    /\ k_sources = <<>>

-----------------------------------------------------------------------------
(* The query-embedding cache of generate_response ("1. Generate query         *)
(* embedding"), shared by the chat turns that run at the same time            *)

cacheVars == <<h_cache, h_turns>>

\* the questions of the turns explored
QuestionPool == { Rep("a", 5), Rep(".", 5), <<"a", ".", "a", ".", "a", ".">> }

\* the code of a character
CharCode(c) == CASE c = "a" -> 1 [] c = "." -> 2 [] c = " " -> 3 [] OTHER -> 4

\* hashlib.md5(last_question.encode('utf-8')).hexdigest(): a digest of the text,
\* computed here as a positional code, which gives different questions of the
\* pool different digests
RECURSIVE DigestFrom(_, _)
DigestFrom(q, i) == IF i = 0 THEN 0 ELSE DigestFrom(q, i - 1) * 5 + CharCode(q[i])
Digest(q) == DigestFrom(q, Len(q))

\* cache_key = f"embedding:{hashlib.md5(...).hexdigest()}"
CacheKeyOfScope(q) == <<"embedding:", 0>>
CacheKey(q) == <<"embedding:", Digest(q)>>

\* cache.get returns None for a key that is not in the cache
NotCached == [cached |-> FALSE, vector |-> NoVector]
Cached(v) == [cached |-> TRUE, vector |-> v]

\* embedding_service.generate_embeddings([last_question])[0]: the vector of the
\* embedding model for the text
QueryEmbedding(q) == Vector(q, "model")

\* a chat turn at its cache lookup
NewTurn(q) == [question |-> q, pc |-> "get", query_embedding |-> NoVector,
               hit |-> FALSE]

Turns == 1..2
CacheKeys == {CacheKey(q) : q \in QuestionPool} \cup {CacheKeyOfScope(<<>>)}

\* Two turns start with an empty cache
InitCache ==
    /\ h_cache = [k \in CacheKeys |-> NotCached]
    /\ h_turns \in [Turns -> {NewTurn(q) : q \in QuestionPool}]

\* query_embedding = cache.get(cache_key): a hit goes on to the vector search,
\* a miss to the embedding service
CacheGet(i) ==
    /\ h_turns[i].pc = "get"
    /\ LET entry == h_cache[CacheKey(h_turns[i].question)]
       IN  h_turns' = [h_turns EXCEPT
               ![i].pc = IF entry.cached THEN "retrieving" ELSE "embed",
               ![i].query_embedding = entry.vector,
               ![i].hit = entry.cached]
    /\ UNCHANGED h_cache

\* query_embedding = embedding_service.generate_embeddings([last_question])[0]
EmbedQuestion(i) ==
    /\ h_turns[i].pc = "embed"
    /\ h_turns' = [h_turns EXCEPT
           ![i].pc = "set",
           ![i].query_embedding = QueryEmbedding(h_turns[i].question)]
    /\ UNCHANGED h_cache

\* cache.set(cache_key, query_embedding, timeout=3600)
CacheSet(i) ==
    /\ h_turns[i].pc = "set"
    /\ h_cache' = [h_cache EXCEPT ![CacheKey(h_turns[i].question)] =
                       Cached(h_turns[i].query_embedding)]
    /\ h_turns' = [h_turns EXCEPT ![i].pc = "retrieving"]

\* An entry of the cache expires (timeout=3600) or is evicted
CacheExpires(k) ==
    /\ h_cache[k].cached
    /\ h_cache' = [h_cache EXCEPT ![k] = NotCached]
    /\ UNCHANGED h_turns

IdleCache ==
    /\ h_cache = [k \in CacheKeys |-> NotCached]
    /\ h_turns = [i \in Turns |-> [NewTurn(<<>>) EXCEPT !.pc = "idle"]]

-----------------------------------------------------------------------------
(* The documents and chat sessions of the users and the API operations on     *)
(* them (views.py): every operation is one request of an authenticated caller *)

accessVars == <<a_documents, a_sessions, a_next_document, a_next_session, a_last>>

Users == {"alice", "bob"}

DocumentIds == 1..MaxDocuments
SessionIds == 1..MaxSessions

\* the contents of the files uploaded
FileContents == { Rep("a", 5), Rep(".", 5) }

\* file_hash = hashlib.sha256(file_content).hexdigest()
FileHash(file_content) == Digest(file_content)

\* an uploaded file; provided is `'file' in request.FILES`
UploadedFile(provided, extension, size_ok, file_content) ==
    [provided |-> provided, extension |-> extension, size_ok |-> size_ok,
     file_content |-> file_content]
Files ==
    { UploadedFile(TRUE, "pdf", TRUE, c) : c \in FileContents }
        \cup { UploadedFile(FALSE, "pdf", TRUE, Rep("a", 5)),
               UploadedFile(TRUE, "exe", TRUE, Rep("a", 5)),
               UploadedFile(TRUE, "pdf", FALSE, Rep("a", 5)) }

\* allowed_types = ['pdf', 'docx', 'txt', 'md']
allowed_types == {"pdf", "docx", "txt", "md"}

\* a row of the documents table, and the place of a row that does not exist
DocumentRow(user, file_hash, doc_status) ==
    [exists |-> TRUE, user |-> user, file_hash |-> file_hash, status |-> doc_status]
NoDocument == [exists |-> FALSE, user |-> "nobody", file_hash |-> 0, status |-> "none"]

\* a row of the chat_sessions table
SessionTitles == {"New Conversation", "titled"}
SessionRow(user, title, message_count) ==
    [exists |-> TRUE, user |-> user, title |-> title, message_count |-> message_count]
NoSession == [exists |-> FALSE, user |-> "nobody", title |-> "", message_count |-> 0]

\* the operation performed last and its answer: the identifiers of the request
\* (0 where it has none), the answer, and the identifiers of the document and
\* of the session the answer shows (0 where it shows none)
Answer(op, caller, document_id, session_id, code, document, session) ==
    [op |-> op, caller |-> caller, document_id |-> document_id,
     session_id |-> session_id, code |-> code, document |-> document,
     session |-> session]
NoAnswer == Answer("none", "nobody", 0, 0, "none", 0, 0)

\* get_object_or_404(Model, id=id, user=request.user) finds a row
FoundForAnyUser(rows, id, user) == id \in DOMAIN rows /\ rows[id].exists
Found(rows, id, user) ==
    id \in DOMAIN rows /\ rows[id].exists /\ rows[id].user = user

\* Document.objects.filter(file_hash=file_hash).first(): the rows with the hash,
\* the newest first (ordering = ['-created_at'])
Existing(file_hash) ==
    { id \in DocumentIds : a_documents[id].exists /\ a_documents[id].file_hash = file_hash }
First(ids) == CHOOSE id \in ids : \A other \in ids : other <= id

InitAccess ==
    /\ a_documents = [id \in DocumentIds |-> NoDocument]
    /\ a_sessions = [id \in SessionIds |-> NoSession]
    /\ a_next_document = 1
    /\ a_next_session = 1
    /\ a_last = NoAnswer

\* POST /api/documents/upload/
document_upload(caller, file, dispatched) ==
    LET file_hash == FileHash(file.file_content)
        existing == Existing(file_hash)
    IN  IF ~file.provided \/ file.extension \notin allowed_types \/ ~file.size_ok
        THEN /\ a_last' = Answer("document_upload", caller, 0, 0, "bad_request", 0, 0)
             /\ UNCHANGED <<a_documents, a_sessions, a_next_document, a_next_session>>
        ELSE IF existing # {}
        THEN /\ a_last' = Answer("document_upload", caller, 0, 0, "exists",
                                 First(existing), 0)
             /\ UNCHANGED <<a_documents, a_sessions, a_next_document, a_next_session>>
        ELSE /\ a_next_document <= MaxDocuments
             /\ a_documents' = [a_documents EXCEPT ![a_next_document] =
                    DocumentRow(caller, file_hash,
                                IF dispatched THEN "pending" ELSE "failed")]
             /\ a_next_document' = a_next_document + 1
             /\ a_last' = Answer("document_upload", caller, 0, 0, "created",
                                 a_next_document, 0)
             /\ UNCHANGED <<a_sessions, a_next_session>>

\* the background processing of a pending document ends
process_document(id, doc_status) ==
    /\ a_documents[id].exists
    /\ a_documents[id].status = "pending"
    /\ a_documents' = [a_documents EXCEPT ![id].status = doc_status]
    /\ a_last' = Answer("process_document", "nobody", id, 0, doc_status, 0, 0)
    /\ UNCHANGED <<a_sessions, a_next_document, a_next_session>>

\* GET /api/documents/{id}/
document_detail_api(caller, document_id) ==
    /\ a_last' = IF Found(a_documents, document_id, caller)
                 THEN Answer("document_detail_api", caller, document_id, 0, "ok",
                             document_id, 0)
                 ELSE Answer("document_detail_api", caller, document_id, 0,
                             "not_found", 0, 0)
    /\ UNCHANGED <<a_documents, a_sessions, a_next_document, a_next_session>>

\* DELETE /api/documents/{id}/delete/
document_delete(caller, document_id) ==
    /\ IF Found(a_documents, document_id, caller)
       THEN /\ a_documents' = [a_documents EXCEPT ![document_id] = NoDocument]
            /\ a_last' = Answer("document_delete", caller, document_id, 0,
                                "no_content", 0, 0)
       ELSE /\ a_last' = Answer("document_delete", caller, document_id, 0,
                                "not_found", 0, 0)
            /\ UNCHANGED a_documents
    /\ UNCHANGED <<a_sessions, a_next_document, a_next_session>>

\* GET /api/chat/{document_id}/
chat_document(caller, document_id) ==
    /\ a_last' = IF Found(a_documents, document_id, caller)
                 THEN Answer("chat_document", caller, document_id, 0, "ok",
                             document_id, 0)
                 ELSE Answer("chat_document", caller, document_id, 0,
                             "not_found", 0, 0)
    /\ UNCHANGED <<a_documents, a_sessions, a_next_document, a_next_session>>

\* POST /api/chat/sessions/create/
chat_sessions_create(caller, title) ==
    /\ a_next_session <= MaxSessions
    /\ a_sessions' = [a_sessions EXCEPT ![a_next_session] = SessionRow(caller, title, 0)]
    /\ a_next_session' = a_next_session + 1
    /\ a_last' = Answer("chat_sessions_create", caller, 0, 0, "created", 0,
                        a_next_session)
    /\ UNCHANGED <<a_documents, a_next_document>>

\* GET /api/chat/sessions/{id}/
chat_sessions_detail(caller, session_id) ==
    /\ a_last' = IF Found(a_sessions, session_id, caller)
                 THEN Answer("chat_sessions_detail", caller, 0, session_id, "ok", 0,
                             session_id)
                 ELSE Answer("chat_sessions_detail", caller, 0, session_id,
                             "not_found", 0, 0)
    /\ UNCHANGED <<a_documents, a_sessions, a_next_document, a_next_session>>

\* PATCH /api/chat/sessions/{id}/update/
chat_sessions_update(caller, session_id, title, is_valid) ==
    /\ IF ~Found(a_sessions, session_id, caller)
       THEN /\ a_last' = Answer("chat_sessions_update", caller, 0, session_id,
                                "not_found", 0, 0)
            /\ UNCHANGED a_sessions
       ELSE IF is_valid
       THEN /\ a_sessions' = [a_sessions EXCEPT ![session_id].title = title]
            /\ a_last' = Answer("chat_sessions_update", caller, 0, session_id, "ok",
                                0, session_id)
       ELSE /\ a_last' = Answer("chat_sessions_update", caller, 0, session_id,
                                "bad_request", 0, 0)
            /\ UNCHANGED a_sessions
    /\ UNCHANGED <<a_documents, a_next_document, a_next_session>>

\* DELETE /api/chat/sessions/{id}/delete/
chat_sessions_delete(caller, session_id) ==
    /\ IF Found(a_sessions, session_id, caller)
       THEN /\ a_sessions' = [a_sessions EXCEPT ![session_id] = NoSession]
            /\ a_last' = Answer("chat_sessions_delete", caller, 0, session_id,
                                "no_content", 0, 0)
       ELSE /\ a_last' = Answer("chat_sessions_delete", caller, 0, session_id,
                                "not_found", 0, 0)
            /\ UNCHANGED a_sessions
    /\ UNCHANGED <<a_documents, a_next_document, a_next_session>>

\* save_messages_async of a session chat: the statistics of the session, and
\* its title from the first question
SessionAfterTurn(session) ==
    [session EXCEPT
        !.message_count = session.message_count + 2,
        !.title = IF session.title = "New Conversation" /\ session.message_count = 0
                  THEN "titled" ELSE session.title]

\* POST /api/chat/stream/ of a request with a user message: the scope is
\* resolved, and a turn that gets to its end persists its messages
chat_turn(caller, session_id, document_id, persisted) ==
    /\ IF session_id # 0
       THEN IF Found(a_sessions, session_id, caller)
            THEN /\ a_last' = Answer("chat_stream", caller, document_id, session_id,
                                     "ok", 0, session_id)
                 /\ IF persisted
                    THEN /\ a_sessions[session_id].message_count + 2 <= MaxSessionMessages
                         /\ a_sessions' = [a_sessions EXCEPT ![session_id] =
                                               SessionAfterTurn(a_sessions[session_id])]
                    ELSE UNCHANGED a_sessions
            ELSE /\ a_last' = Answer("chat_stream", caller, document_id, session_id,
                                     "not_found", 0, 0)
                 /\ UNCHANGED a_sessions
       ELSE /\ a_last' =
                 IF document_id = 0
                 THEN Answer("chat_stream", caller, 0, 0, "scope_required", 0, 0)
                 ELSE IF ~Found(a_documents, document_id, caller)
                 THEN Answer("chat_stream", caller, document_id, 0, "not_found", 0, 0)
                 ELSE IF a_documents[document_id].status # "completed"
                 THEN Answer("chat_stream", caller, document_id, 0, "not_ready",
                             document_id, 0)
                 ELSE Answer("chat_stream", caller, document_id, 0, "ok",
                             document_id, 0)
            /\ UNCHANGED a_sessions
    /\ UNCHANGED <<a_documents, a_next_document, a_next_session>>

IdleAccess ==
    /\ a_documents = <<>>
    /\ a_sessions = <<>>
    /\ a_next_document = 0
    /\ a_next_session = 0
    /\ a_last = NoAnswer

-----------------------------------------------------------------------------
(* TokenEstimationService called on a text, a current count and a limit       *)

tokenVars == <<n_text, n_current_tokens, n_max_tokens, n_tokens, n_exceeds, n_pc>>

InitTokens ==
    /\ n_text \in StrUpTo(MaxLen)
    /\ n_current_tokens \in 0..MaxCurrentTokens
    /\ n_max_tokens \in 0..MaxTokenLimit
    /\ n_tokens = 0
    /\ n_exceeds = FALSE
    /\ n_pc = "input"

\* token_service.estimate_tokens(text)
EstimateTokens ==
    /\ n_pc = "input"
    /\ n_tokens' = estimate_tokens(n_text)
    /\ n_pc' = "estimated"
    /\ UNCHANGED <<n_text, n_current_tokens, n_max_tokens, n_exceeds>>

\* token_service.would_exceed_limit(current_tokens, text, max_tokens)
WouldExceedLimit ==
    /\ n_pc = "estimated"
    /\ n_exceeds' = would_exceed_limit(n_current_tokens, n_text, n_max_tokens)
    /\ n_pc' = "decided"
    /\ UNCHANGED <<n_text, n_current_tokens, n_max_tokens, n_tokens>>

IdleTokens ==
    /\ n_text = <<>>
    /\ n_current_tokens = 0
    /\ n_max_tokens = 0
    /\ n_tokens = 0
    /\ n_exceeds = FALSE
    /\ n_pc = "idle"

-----------------------------------------------------------------------------
(* One coroutine _generate_single_embedding_with_retry and the durations of    *)
(* its backoff sleeps, in tenths of a second                                   *)

backoffVars == <<b_max_retries, b_retry_delay, b_attempts, b_delays, b_pc>>

\* self.retry_delay = retry_delay or 2.0
DefaultRetryDelay == 20

\* base_delay = self.retry_delay * (2 ** (attempts - 1))
base_delay_of_next_attempt(retry_delay, attempts) == retry_delay * 2 ^ attempts
base_delay(retry_delay, attempts) == retry_delay * 2 ^ (attempts - 1)

\* jitter = random.uniform(0, 0.3 * base_delay): the least, the middle and the
\* greatest value
Jitters(base) == { 0, (3 * base) \div 20, (3 * base) \div 10 }

InitBackoff ==
    /\ b_max_retries \in {OrDefault(r, DefaultMaxRetries) : r \in 0..MaxBackoffRetries}
    /\ b_retry_delay \in {OrDefault(10 * d, DefaultRetryDelay) : d \in 0..MaxRetryDelay}
    /\ b_attempts = 0
    /\ b_delays = <<>>
    /\ b_pc = "call"

\* return await self._generate_single_embedding(client, chunk)
AttemptSucceeds ==
    /\ b_pc = "call"
    /\ b_pc' = "returned"
    /\ UNCHANGED <<b_max_retries, b_retry_delay, b_attempts, b_delays>>

\* except Exception: attempts += 1, and the sleep when another attempt is left;
\* after the last attempt the loop ends and RuntimeError is raised
AttemptFails ==
    /\ b_pc = "call"
    /\ b_attempts' = b_attempts + 1
    /\ IF b_attempts + 1 < b_max_retries
       THEN \E jitter \in Jitters(base_delay(b_retry_delay, b_attempts + 1)) :
               /\ b_delays' = Append(b_delays,
                                  base_delay(b_retry_delay, b_attempts + 1) + jitter)
               /\ b_pc' = "sleeping"
       ELSE /\ b_pc' = "raised"
            /\ UNCHANGED b_delays
    /\ UNCHANGED <<b_max_retries, b_retry_delay>>

\* await asyncio.sleep(delay) ends and the loop tests attempts < max_retries
SleepEnds ==
    /\ b_pc = "sleeping"
    /\ b_pc' = "call"
    /\ UNCHANGED <<b_max_retries, b_retry_delay, b_attempts, b_delays>>

IdleBackoff ==
    /\ b_max_retries = 0 /\ b_retry_delay = 0 /\ b_attempts = 0
    /\ b_delays = <<>> /\ b_pc = "idle"

-----------------------------------------------------------------------------
(* The chunks of one ingestion run: prepared, embedded and stored *)

pairVars == <<p_chunks, p_chunk_contents, p_valid_chunks, p_embeddings, p_rows, p_pc>>

\* if trimmed_chunk and len(trimmed_chunk) >= 5
KeepsTrimmedOfAnyLength(trimmed) == trimmed # <<>>
KeepsTrimmed(trimmed) == trimmed # <<>> /\ Len(trimmed) >= MinChunkLen

\* chunk_contents: trimmed_chunk = chunk_content.strip() of every chunk, appended
\* when the test holds
ChunkContents(chunks) ==
    SelectSeq([i \in 1..Len(chunks) |-> strip(chunks[i])], KeepsTrimmed)

\* The storing loop: for index, chunk_content in enumerate(chunk_contents), a row
\* is created if index < len(embeddings) and embeddings[index]
StoredRows(contents, embs) ==
    LET candidates ==
            [i \in 1..Len(contents) |->
                [content |-> contents[i],
                 embedding |-> IF i <= Len(embs) THEN embs[i] ELSE NoVector]]
        HasEmbedding(row) == row.embedding # NoVector
    IN  SelectSeq(candidates, HasEmbedding)

\* chunker.chunk(text) has returned
InitPair ==
    /\ p_chunks \in ChunkLists
    /\ p_chunk_contents = <<>>
    /\ p_valid_chunks = <<>>
    /\ p_embeddings = <<>>
    /\ p_rows = <<>>
    /\ p_pc = "prepare"

\* Prepare chunks for embedding; if not chunk_contents: raise RuntimeError
PrepareChunks ==
    /\ p_pc = "prepare"
    /\ p_chunk_contents' = ChunkContents(p_chunks)
    /\ p_pc' = IF ChunkContents(p_chunks) = <<>> THEN "raised" ELSE "embed"
    /\ UNCHANGED <<p_chunks, p_valid_chunks, p_embeddings, p_rows>>

\* generate_embeddings(chunk_contents) up to asyncio.run: an empty list of valid
\* chunks is answered with [] at once
FilterValidChunks ==
    /\ p_pc = "embed"
    /\ p_valid_chunks' = ValidChunks(p_chunk_contents)
    /\ p_pc' = IF ValidChunks(p_chunk_contents) = <<>> THEN "store" ELSE "embedding"
    /\ UNCHANGED <<p_chunks, p_chunk_contents, p_embeddings, p_rows>>

\* _generate_embeddings_async returns one vector per valid chunk, in their order
EmbeddingsComputed ==
    /\ p_pc = "embedding"
    /\ \E backend \in {"ollama", "litellm"} :
          p_embeddings' = [i \in 1..Len(p_valid_chunks) |-> Vector(p_valid_chunks[i], backend)]
    /\ p_pc' = "store"
    /\ UNCHANGED <<p_chunks, p_chunk_contents, p_valid_chunks, p_rows>>

\* generate_embeddings raises: the task raises RuntimeError, nothing is stored
EmbeddingsFailed ==
    /\ p_pc = "embedding"
    /\ p_pc' = "raised"
    /\ UNCHANGED <<p_chunks, p_chunk_contents, p_valid_chunks, p_embeddings, p_rows>>

\* Store chunks with embeddings; if count == 0: raise RuntimeError
StoreRows ==
    /\ p_pc = "store"
    /\ p_rows' = StoredRows(p_chunk_contents, p_embeddings)
    /\ p_pc' = IF StoredRows(p_chunk_contents, p_embeddings) = <<>> THEN "raised" ELSE "completed"
    /\ UNCHANGED <<p_chunks, p_chunk_contents, p_valid_chunks, p_embeddings>>

IdlePair ==
    /\ p_chunks = <<>> /\ p_chunk_contents = <<>> /\ p_valid_chunks = <<>>
    /\ p_embeddings = <<>> /\ p_rows = <<>> /\ p_pc = "idle"

-----------------------------------------------------------------------------
(* Concurrent chat turns on one session: save_messages_async of each turn *)

statVars == <<m_rows, m_clock, m_session, m_local, m_pc>>

ChatTurns == 1..MaxTurns

\* the statistics and the title of a ChatSession
SessionStats(title, message_count, last_message_at) ==
    [title |-> title, message_count |-> message_count, last_message_at |-> last_message_at]

\* a new ChatSession: title 'New Conversation', message_count 0, last_message_at null (0)
NewSession == SessionStats("New Conversation", 0, 0)

\* what a turn holds: its session object, and the ids of the messages it created
TurnLocal(session, user_msg, assistant_msg) ==
    [session |-> session, user_msg |-> user_msg, assistant_msg |-> assistant_msg]

\* ChatMessage.objects.create(session=session, ..., role=role): the row gets the
\* next id and created_at = now
MessageRow(turn, role, now) == [turn |-> turn, role |-> role, created_at |-> now]

\* ChatMessage.objects.filter(session=session).count()
CountMessages(rows, turn) == Len(rows)

\* the title after the auto-title test: the first message of the session is the
\* user message of this turn and the title held is empty or the default
TitleAfterTurn(title, first_message, user_msg) ==
    IF title = "New Conversation" /\ first_message # 0 /\ first_message = user_msg
    THEN "titled" ELSE title

InitStats ==
    /\ m_rows = <<>>
    /\ m_clock = 0
    /\ m_session = NewSession
    /\ m_local = [t \in ChatTurns |-> TurnLocal(NewSession, 0, 0)]
    /\ m_pc = [t \in ChatTurns |-> "request"]

\* chat_stream resolves the scope: session = get_object_or_404(ChatSession, id=session_id, user=user)
LoadSession(t) ==
    /\ m_pc[t] = "request"
    /\ m_local' = [m_local EXCEPT ![t].session = m_session]
    /\ m_pc' = [m_pc EXCEPT ![t] = "user_msg"]
    /\ UNCHANGED <<m_rows, m_clock, m_session>>

\* user_msg = ChatMessage.objects.create(..., role='user', ...)
CreateUserMessage(t) ==
    /\ m_pc[t] = "user_msg"
    /\ m_clock' = m_clock + 1
    /\ m_rows' = Append(m_rows, MessageRow(t, "user", m_clock + 1))
    /\ m_local' = [m_local EXCEPT ![t].user_msg = Len(m_rows) + 1]
    /\ m_pc' = [m_pc EXCEPT ![t] = "assistant_msg"]
    /\ UNCHANGED m_session

\* assistant_msg = ChatMessage.objects.create(..., role='assistant', ...)
CreateAssistantMessage(t) ==
    /\ m_pc[t] = "assistant_msg"
    /\ m_clock' = m_clock + 1
    /\ m_rows' = Append(m_rows, MessageRow(t, "assistant", m_clock + 1))
    /\ m_local' = [m_local EXCEPT ![t].assistant_msg = Len(m_rows) + 1]
    /\ m_pc' = [m_pc EXCEPT ![t] = "count"]
    /\ UNCHANGED m_session

\* session.message_count = ChatMessage.objects.filter(session=session).count()
\* session.last_message_at = assistant_msg.created_at
UpdateStatistics(t) ==
    /\ m_pc[t] = "count"
    /\ m_local' = [m_local EXCEPT
            ![t].session.message_count = CountMessages(m_rows, t),
            ![t].session.last_message_at = m_rows[m_local[t].assistant_msg].created_at]
    /\ m_pc' = [m_pc EXCEPT ![t] = "first"]
    /\ UNCHANGED <<m_rows, m_clock, m_session>>

\* first_message = ChatMessage.objects.filter(session=session).order_by('id').first()
\* and the auto-generated title
AutoTitle(t) ==
    /\ m_pc[t] = "first"
    /\ m_local' = [m_local EXCEPT
            ![t].session.title = TitleAfterTurn(m_local[t].session.title,
                                                IF m_rows = <<>> THEN 0 ELSE 1,
                                                m_local[t].user_msg)]
    /\ m_pc' = [m_pc EXCEPT ![t] = "save"]
    /\ UNCHANGED <<m_rows, m_clock, m_session>>

\* session.save(): every field of the object held by the turn is written
SaveSession(t) ==
    /\ m_pc[t] = "save"
    /\ m_session' = m_local[t].session
    /\ m_pc' = [m_pc EXCEPT ![t] = "done"]
    /\ UNCHANGED <<m_rows, m_clock, m_local>>

IdleStats ==
    /\ m_rows = <<>> /\ m_clock = 0 /\ m_session = NewSession
    /\ m_local = [t \in ChatTurns |-> TurnLocal(NewSession, 0, 0)]
    /\ m_pc = [t \in ChatTurns |-> "idle"]

vars == <<chunkVars, sliceVars, embedVars, ingestVars, planVars, chatVars, contextVars, cacheVars, accessVars, tokenVars, backoffVars, pairVars, statVars>>

\* the variables outside each part of the model
outsideChunk == <<sliceVars, embedVars, ingestVars, planVars, chatVars, contextVars, cacheVars, accessVars, tokenVars, backoffVars, pairVars, statVars>>
outsideSlice == <<chunkVars, embedVars, ingestVars, planVars, chatVars, contextVars, cacheVars, accessVars, tokenVars, backoffVars, pairVars, statVars>>
outsideEmbed == <<chunkVars, sliceVars, ingestVars, planVars, chatVars, contextVars, cacheVars, accessVars, tokenVars, backoffVars, pairVars, statVars>>
outsideIngest == <<chunkVars, sliceVars, embedVars, planVars, chatVars, contextVars, cacheVars, accessVars, tokenVars, backoffVars, pairVars, statVars>>
outsidePlan == <<chunkVars, sliceVars, embedVars, ingestVars, chatVars, contextVars, cacheVars, accessVars, tokenVars, backoffVars, pairVars, statVars>>
outsideChat == <<chunkVars, sliceVars, embedVars, ingestVars, planVars, contextVars, cacheVars, accessVars, tokenVars, backoffVars, pairVars, statVars>>
outsideContext == <<chunkVars, sliceVars, embedVars, ingestVars, planVars, chatVars, cacheVars, accessVars, tokenVars, backoffVars, pairVars, statVars>>
outsideCache == <<chunkVars, sliceVars, embedVars, ingestVars, planVars, chatVars, contextVars, accessVars, tokenVars, backoffVars, pairVars, statVars>>
outsideAccess == <<chunkVars, sliceVars, embedVars, ingestVars, planVars, chatVars, contextVars, cacheVars, tokenVars, backoffVars, pairVars, statVars>>
outsideTokens == <<chunkVars, sliceVars, embedVars, ingestVars, planVars, chatVars, contextVars, cacheVars, accessVars, backoffVars, pairVars, statVars>>
outsideBackoff == <<chunkVars, sliceVars, embedVars, ingestVars, planVars, chatVars, contextVars, cacheVars, accessVars, tokenVars, pairVars, statVars>>
outsidePair == <<chunkVars, sliceVars, embedVars, ingestVars, planVars, chatVars, contextVars, cacheVars, accessVars, tokenVars, backoffVars, statVars>>
outsideStats == <<chunkVars, sliceVars, embedVars, ingestVars, planVars, chatVars, contextVars, cacheVars, accessVars, tokenVars, backoffVars, pairVars>>

\* One call of chunk()
ChunkInit == InitChunk /\ IdleSlice /\ IdleEmbed /\ IdleIngest /\ IdlePlan /\ IdleChat /\ IdleContext /\ IdleCache /\ IdleAccess /\ IdleTokens /\ IdleBackoff /\ IdlePair /\ IdleStats
ChunkNext == ChunkCall /\ UNCHANGED outsideChunk
SpecChunk == ChunkInit /\ [][ChunkNext]_vars

\* One call of _split_with_overlap, iteration by iteration
SliceInit == InitSlice /\ IdleChunk /\ IdleEmbed /\ IdleIngest /\ IdlePlan /\ IdleChat /\ IdleContext /\ IdleCache /\ IdleAccess /\ IdleTokens /\ IdleBackoff /\ IdlePair /\ IdleStats
SliceNext == SplitIteration /\ UNCHANGED outsideSlice
SpecSlice == SliceInit /\ [][SliceNext]_vars

\* One call of generate_embeddings
EmbedInit == InitEmbed /\ IdleChunk /\ IdleSlice /\ IdleIngest /\ IdlePlan /\ IdleChat /\ IdleContext /\ IdleCache /\ IdleAccess /\ IdleTokens /\ IdleBackoff /\ IdlePair /\ IdleStats
EmbedStartAttempt == \E k \in 1..Len(e_tasks) : StartAttempt(k)
EmbedCallSucceeds == \E k \in 1..Len(e_tasks) : CallSucceeds(k)
EmbedCallFails == \E k \in 1..Len(e_tasks) : CallFails(k)
EmbedNext ==
    \/ GenerateEmbeddings /\ UNCHANGED outsideEmbed
    \/ EmbedStartAttempt /\ UNCHANGED outsideEmbed
    \/ EmbedCallSucceeds /\ UNCHANGED outsideEmbed
    \/ EmbedCallFails /\ UNCHANGED outsideEmbed
    \/ GatherRaises /\ UNCHANGED outsideEmbed
    \/ GatherReturns /\ UNCHANGED outsideEmbed
    \/ CallbackRaises /\ UNCHANGED outsideEmbed
    \/ CallbackBlocks /\ UNCHANGED outsideEmbed
    \/ NextBatch /\ UNCHANGED outsideEmbed
SpecEmbed == EmbedInit /\ [][EmbedNext]_vars

\* One Document from its creation by document_upload on
IngestInit == InitIngest /\ IdleChunk /\ IdleSlice /\ IdleEmbed /\ IdlePlan /\ IdleChat /\ IdleContext /\ IdleCache /\ IdleAccess /\ IdleTokens /\ IdleBackoff /\ IdlePair /\ IdleStats
IngestNext ==
    \/ DispatchCelery /\ UNCHANGED outsideIngest
    \/ DispatchSubprocess /\ UNCHANGED outsideIngest
    \/ DispatchFails /\ UNCHANGED outsideIngest
    \/ HealthCheckFails /\ UNCHANGED outsideIngest
    \/ MarkProcessing /\ UNCHANGED outsideIngest
    \/ FileNotFound /\ UNCHANGED outsideIngest
    \/ ExtractRaises /\ UNCHANGED outsideIngest
    \/ ExtractReturns /\ UNCHANGED outsideIngest
    \/ ValidateText /\ UNCHANGED outsideIngest
    \/ ChunkReturns /\ UNCHANGED outsideIngest
    \/ ChunkRaises /\ UNCHANGED outsideIngest
    \/ ChunkHangs /\ UNCHANGED outsideIngest
    \/ EmbeddingsReturned /\ UNCHANGED outsideIngest
    \/ EmbeddingsRaise /\ UNCHANGED outsideIngest
    \/ StoreChunk /\ UNCHANGED outsideIngest
    \/ StoreRaises /\ UNCHANGED outsideIngest
    \/ Complete /\ UNCHANGED outsideIngest
    \/ HandlerUpdates /\ UNCHANGED outsideIngest
    \/ HandlerUpdateFails /\ UNCHANGED outsideIngest
    \/ CeleryRetry /\ UNCHANGED outsideIngest
    \/ CeleryGivesUp /\ UNCHANGED outsideIngest
    \/ Rerun /\ UNCHANGED outsideIngest
SpecIngest == IngestInit /\ [][IngestNext]_vars

\* The batch plan of one call of _generate_embeddings_async
PlanInit == InitPlan /\ IdleChunk /\ IdleSlice /\ IdleEmbed /\ IdleIngest /\ IdleChat /\ IdleContext /\ IdleCache /\ IdleAccess /\ IdleTokens /\ IdleBackoff /\ IdlePair /\ IdleStats
PlanNext == PlanBatches /\ UNCHANGED outsidePlan
SpecPlan == PlanInit /\ [][PlanNext]_vars

\* One chat turn
ChatInit == InitChat /\ IdleChunk /\ IdleSlice /\ IdleEmbed /\ IdleIngest /\ IdlePlan /\ IdleContext /\ IdleCache /\ IdleAccess /\ IdleTokens /\ IdleBackoff /\ IdlePair /\ IdleStats
ChatNext ==
    \/ ChatStream /\ UNCHANGED outsideChat
    \/ ResolveScope /\ UNCHANGED outsideChat
    \/ CacheHit /\ UNCHANGED outsideChat
    \/ CacheMissEmbedded /\ UNCHANGED outsideChat
    \/ QuestionFilteredOut /\ UNCHANGED outsideChat
    \/ EmbeddingRaises /\ UNCHANGED outsideChat
    \/ SearchNoDocuments /\ UNCHANGED outsideChat
    \/ SearchReturns /\ UNCHANGED outsideChat
    \/ SearchRaises /\ UNCHANGED outsideChat
    \/ ContextAssembled /\ UNCHANGED outsideChat
    \/ AssemblyRaises /\ UNCHANGED outsideChat
    \/ StreamContent /\ UNCHANGED outsideChat
    \/ StreamRaises /\ UNCHANGED outsideChat
    \/ StreamEnds /\ UNCHANGED outsideChat
    \/ SaveMessages /\ UNCHANGED outsideChat
    \/ SaveFails /\ UNCHANGED outsideChat
SpecChat == ChatInit /\ [][ChatNext]_vars

\* The selection of context chunks for one chat turn
ContextInit == InitContext /\ IdleChunk /\ IdleSlice /\ IdleEmbed /\ IdleIngest /\ IdlePlan /\ IdleChat /\ IdleCache /\ IdleAccess /\ IdleTokens /\ IdleBackoff /\ IdlePair /\ IdleStats
ContextNext ==
    \/ SelectChunks /\ UNCHANGED outsideContext
    \/ SaveSources /\ UNCHANGED outsideContext
SpecContext == ContextInit /\ [][ContextNext]_vars

\* Two chat turns at their query embedding
CacheInit == InitCache /\ IdleChunk /\ IdleSlice /\ IdleEmbed /\ IdleIngest /\ IdlePlan /\ IdleChat /\ IdleContext /\ IdleAccess /\ IdleTokens /\ IdleBackoff /\ IdlePair /\ IdleStats
TurnCacheGet == \E i \in Turns : CacheGet(i)
TurnEmbedQuestion == \E i \in Turns : EmbedQuestion(i)
TurnCacheSet == \E i \in Turns : CacheSet(i)
AnyCacheExpires == \E k \in CacheKeys : CacheExpires(k)
CacheNext ==
    \/ TurnCacheGet /\ UNCHANGED outsideCache
    \/ TurnEmbedQuestion /\ UNCHANGED outsideCache
    \/ TurnCacheSet /\ UNCHANGED outsideCache
    \/ AnyCacheExpires /\ UNCHANGED outsideCache
SpecCache == CacheInit /\ [][CacheNext]_vars

\* The API operations of two users on their documents and sessions
AccessInit == InitAccess /\ IdleChunk /\ IdleSlice /\ IdleEmbed /\ IdleIngest /\ IdlePlan /\ IdleChat /\ IdleContext /\ IdleCache /\ IdleTokens /\ IdleBackoff /\ IdlePair /\ IdleStats
Upload == \E caller \in Users, file \in Files, dispatched \in BOOLEAN :
              document_upload(caller, file, dispatched)
ProcessingEnds == \E id \in DocumentIds, doc_status \in {"completed", "failed"} :
                      process_document(id, doc_status)
DocumentDetail == \E caller \in Users, id \in DocumentIds : document_detail_api(caller, id)
DocumentDelete == \E caller \in Users, id \in DocumentIds : document_delete(caller, id)
ChatDocument == \E caller \in Users, id \in DocumentIds : chat_document(caller, id)
SessionCreate == \E caller \in Users, title \in SessionTitles :
                     chat_sessions_create(caller, title)
SessionDetail == \E caller \in Users, id \in SessionIds : chat_sessions_detail(caller, id)
SessionUpdate == \E caller \in Users, id \in SessionIds, title \in SessionTitles,
                    is_valid \in BOOLEAN :
                     chat_sessions_update(caller, id, title, is_valid)
SessionDelete == \E caller \in Users, id \in SessionIds : chat_sessions_delete(caller, id)
ChatTurn == \E caller \in Users, session_id \in {0} \cup SessionIds,
               document_id \in {0} \cup DocumentIds, persisted \in BOOLEAN :
                chat_turn(caller, session_id, document_id, persisted)
AccessNext ==
    \/ Upload /\ UNCHANGED outsideAccess
    \/ ProcessingEnds /\ UNCHANGED outsideAccess
    \/ DocumentDetail /\ UNCHANGED outsideAccess
    \/ DocumentDelete /\ UNCHANGED outsideAccess
    \/ ChatDocument /\ UNCHANGED outsideAccess
    \/ SessionCreate /\ UNCHANGED outsideAccess
    \/ SessionDetail /\ UNCHANGED outsideAccess
    \/ SessionUpdate /\ UNCHANGED outsideAccess
    \/ SessionDelete /\ UNCHANGED outsideAccess
    \/ ChatTurn /\ UNCHANGED outsideAccess
SpecAccess == AccessInit /\ [][AccessNext]_vars

\* The token estimates of every text up to MaxLen characters
TokensInit == InitTokens /\ IdleChunk /\ IdleSlice /\ IdleEmbed /\ IdleIngest /\ IdlePlan /\ IdleChat /\ IdleContext /\ IdleCache /\ IdleAccess /\ IdleBackoff /\ IdlePair /\ IdleStats
TokensNext ==
    \/ EstimateTokens /\ UNCHANGED outsideTokens
    \/ WouldExceedLimit /\ UNCHANGED outsideTokens
SpecTokens == TokensInit /\ [][TokensNext]_vars

\* The retry loop of one embedding call
BackoffInit == InitBackoff /\ IdleChunk /\ IdleSlice /\ IdleEmbed /\ IdleIngest /\ IdlePlan /\ IdleChat /\ IdleContext /\ IdleCache /\ IdleAccess /\ IdleTokens /\ IdlePair /\ IdleStats
BackoffNext ==
    \/ AttemptSucceeds /\ UNCHANGED outsideBackoff
    \/ AttemptFails /\ UNCHANGED outsideBackoff
    \/ SleepEnds /\ UNCHANGED outsideBackoff
SpecBackoff == BackoffInit /\ [][BackoffNext]_vars

\* The chunks of one ingestion run, from the chunker's result to the stored rows
PairInit == InitPair /\ IdleChunk /\ IdleSlice /\ IdleEmbed /\ IdleIngest /\ IdlePlan /\ IdleChat /\ IdleContext /\ IdleCache /\ IdleAccess /\ IdleTokens /\ IdleBackoff /\ IdleStats
PairNext ==
    \/ PrepareChunks /\ UNCHANGED outsidePair
    \/ FilterValidChunks /\ UNCHANGED outsidePair
    \/ EmbeddingsComputed /\ UNCHANGED outsidePair
    \/ EmbeddingsFailed /\ UNCHANGED outsidePair
    \/ StoreRows /\ UNCHANGED outsidePair
SpecPair == PairInit /\ [][PairNext]_vars

\* Chat turns on one session, statement by statement of their persistence threads
StatsInit == InitStats /\ IdleChunk /\ IdleSlice /\ IdleEmbed /\ IdleIngest /\ IdlePlan /\ IdleChat /\ IdleContext /\ IdleCache /\ IdleAccess /\ IdleTokens /\ IdleBackoff /\ IdlePair
StatsLoadSession == \E t \in ChatTurns : LoadSession(t)
StatsCreateUserMessage == \E t \in ChatTurns : CreateUserMessage(t)
StatsCreateAssistantMessage == \E t \in ChatTurns : CreateAssistantMessage(t)
StatsUpdateStatistics == \E t \in ChatTurns : UpdateStatistics(t)
StatsAutoTitle == \E t \in ChatTurns : AutoTitle(t)
StatsSaveSession == \E t \in ChatTurns : SaveSession(t)
StatsNext ==
    \/ StatsLoadSession /\ UNCHANGED outsideStats
    \/ StatsCreateUserMessage /\ UNCHANGED outsideStats
    \/ StatsCreateAssistantMessage /\ UNCHANGED outsideStats
    \/ StatsUpdateStatistics /\ UNCHANGED outsideStats
    \/ StatsAutoTitle /\ UNCHANGED outsideStats
    \/ StatsSaveSession /\ UNCHANGED outsideStats
SpecStats == StatsInit /\ [][StatsNext]_vars

-----------------------------------------------------------------------------
(* Properties of document ingestion *)

\* the stages of a run named by the error-handling contract
FailingStages == {"extract", "validate", "chunk", "embed", "store"}

\* C1: when _process_document_internal exits re-raising an exception of text
\* extraction, the text length check, chunking, embedding generation or chunk
\* storage, the Document has status 'failed' and a non-empty error_message.
C1_FailedAfterRaise ==
    (w_pc = "raised" /\ w_exc.stage \in FailingStages)
        => (d_status = "failed" /\ ~d_error.null /\ d_error.len > 0)

\* C2 (as stated): the status only changes along pending -> processing,
\* processing -> completed and processing -> failed.
C2_StatusLifecycle ==
    [][d_status' # d_status =>
          <<d_status, d_status'>> \in {<<"pending", "processing">>,
                                      <<"processing", "completed">>,
                                      <<"processing", "failed">>}]_vars

\* C2 (amended): the status never returns to pending and completed is entered
\* only from processing; failed is also entered directly from pending or from
\* completed (failed health check, failed dispatch), and a retry or a repeated
\* run takes failed or completed back to processing.
C2_StatusLifecycleWithReruns ==
    [][d_status' # d_status =>
          <<d_status, d_status'>> \in {<<"pending", "processing">>,
                                      <<"processing", "completed">>,
                                      <<"processing", "failed">>,
                                      <<"pending", "failed">>,
                                      <<"completed", "failed">>,
                                      <<"failed", "processing">>,
                                      <<"completed", "processing">>}]_vars

\* a Celery retry has taken a failed document through processing to completed
C2_Witness ==
    /\ d_status = "completed"
    /\ w_mode = "celery"
    /\ w_retries > 0

-----------------------------------------------------------------------------
(* Properties of the chunker *)

\* str.split() without argument, as a set: the whitespace-delimited words of s
RECURSIVE WordsFrom(_, _)
WordsFrom(s, acc) ==
    IF s = <<>> THEN (IF acc = <<>> THEN {} ELSE {acc})
    ELSE IF IsSpace(Head(s))
         THEN (IF acc = <<>> THEN {} ELSE {acc}) \cup WordsFrom(Tail(s), <<>>)
         ELSE WordsFrom(Tail(s), Append(acc, Head(s)))

Words(s) == WordsFrom(s, <<>>)

\* s[i+1 .. Len(s)-j] is s without its leading and trailing whitespace
StripsTo(s, i, j) ==
    /\ i + j <= Len(s)
    /\ \A k \in 1..i : IsSpace(s[k])
    /\ \A k \in 1..j : IsSpace(s[Len(s) + 1 - k])
    /\ i + j < Len(s) => ~IsSpace(s[i + 1]) /\ ~IsSpace(s[Len(s) - j])

\* C3: every iteration of the slicing loop of _split_with_overlap either advances
\* the start position or stops the loop (so that chunk() terminates on a text
\* longer than chunk_size in which no separator occurs).
C3_SliceAdvancesOrStops ==
    [][s_pc = "loop" => (start' > start \/ s_pc' = "return")]_vars

\* C4: no chunk returned by chunk() is longer than chunk_size + overlap.
C4_ChunkSizeBound ==
    cpc = "returned" =>
        \A i \in 1..Len(result) : Len(result[i].content) <= chunk_size + overlap

\* C5: with overlap < chunk_size / 2, every whitespace-delimited word of the text
\* is a whitespace-delimited word of some returned chunk.
C5_WordsPreserved ==
    (cpc = "returned" /\ 2 * overlap < chunk_size) =>
        Words(text) \subseteq UNION {Words(result[i].content) : i \in 1..Len(result)}

\* C6: when the stripped text is at most chunk_size long, chunk() returns exactly
\* one chunk, whose content is the stripped text and whose metadata.length is its
\* length; chunk("") returns one chunk with empty content and length 0.
C6_SingleChunkShortcut ==
    \A i \in 0..Len(text) : \A j \in 0..Len(text) :
        (cpc # "call" /\ StripsTo(text, i, j) /\ Len(text) - i - j <= chunk_size) =>
            /\ cpc = "returned"
            /\ Len(result) = 1
            /\ result[1].content = SubSeq(text, i + 1, Len(text) - j)
            /\ result[1].length = Len(text) - i - j

C6_Witness ==
    /\ cpc = "returned"
    /\ text = <<" ", "a", " ", ".", "\n">>
    /\ chunk_size = 3
    /\ result = <<[content |-> <<"a", " ", ".">>, length |-> 3]>>

\* The first splitter that splits s into more than one part (0 when none does)
FirstSplitter(s) ==
    IF \E k \in 1..Len(splitters) : Len(split(s, splitters[k])) > 1
    THEN CHOOSE k \in 1..Len(splitters) :
            /\ Len(split(s, splitters[k])) > 1
            /\ \A j \in 1..(k - 1) : Len(split(s, splitters[j])) = 1
    ELSE 0

\* C7 as stated, at the model's scale: a text twice chunk_size long, chunked with
\* a positive overlap of at most half of chunk_size, yields (whenever chunk()
\* returns at all) exactly 2 chunks and the second begins with the trailing
\* overlap characters of the first.
C7_TwiceChunkSizeGivesTwoChunks ==
    (cpc = "returned" /\ Len(text) = 2 * chunk_size
        /\ overlap >= 1 /\ 2 * overlap <= chunk_size) =>
        /\ Len(result) = 2
        /\ StartsWith(result[2].content, LastChars(result[1].content, overlap))

\* C7, amended: when the stripped text is longer than chunk_size and the first
\* splitter occurring in it splits it into exactly two parts, both non-empty and
\* at most chunk_size long after stripping, the first longer than the overlap
\* (which is at least 1) and the two joined by the separator longer than
\* chunk_size, chunk() returns exactly 2 chunks: the first part, and the last
\* overlap characters of the first part, the separator and the second part.
C7_TwoPartsGiveTwoChunks ==
    LET t == strip(text)
        ov == ClampOverlap(chunk_size, overlap)
        k == FirstSplitter(t)
    IN  (cpc # "call" /\ Len(t) > chunk_size /\ ov >= 1 /\ k # 0) =>
          LET parts == split(t, splitters[k])
              p1 == strip(parts[1])
              p2 == strip(parts[2])
          IN  (Len(parts) = 2 /\ p1 # <<>> /\ p2 # <<>> /\ Len(p1) <= chunk_size
                  /\ Len(p2) <= chunk_size /\ Len(p1) > ov
                  /\ Len(p1) + Len(splitters[k]) + Len(p2) > chunk_size) =>
                /\ cpc = "returned"
                /\ Len(result) = 2
                /\ result[1].content = p1
                /\ result[2].content
                      = SubSeq(p1, Len(p1) - ov + 1, Len(p1)) \o splitters[k] \o p2

C7_Witness ==
    /\ cpc = "returned"
    /\ text = <<"a", ".", "\n", "\n", ".", "a">>
    /\ chunk_size = 3
    /\ overlap = 1
    /\ result = << [content |-> <<"a", ".">>, length |-> 2],
                   [content |-> <<".", "\n", "\n", ".", "a">>, length |-> 5] >>

-----------------------------------------------------------------------------
(* Properties of the embedding engine *)

\* c has at least MinChunkLen characters between its leading and trailing whitespace
PassesFilter(c) ==
    \E i \in 0..Len(c) : \E j \in 0..Len(c) :
        StripsTo(c, i, j) /\ Len(c) - i - j >= 5

KeptChunks == SelectSeq(e_chunks, PassesFilter)

\* C8: when every chunk passes the length filter, the i-th vector returned by
\* generate_embeddings is the embedding of the i-th chunk, whatever the order in
\* which the requests of a batch finish and however many retries each needs.
C8_OrderPreserved ==
    (e_pc = "returned" /\ \A i \in 1..Len(e_chunks) : PassesFilter(e_chunks[i])) =>
        /\ Len(embeddings) = Len(e_chunks)
        /\ \A i \in 1..Len(e_chunks) : embeddings[i].of = e_chunks[i]

\* two different chunks in one batch, the second finished first, the first retried
C8_Witness ==
    /\ e_pc = "returned"
    /\ Len(e_chunks) = 2
    /\ PassesFilter(e_chunks[1]) /\ PassesFilter(e_chunks[2])
    /\ e_chunks[1] # e_chunks[2]
    /\ e_order = <<2, 1>>
    /\ e_tasks[1].attempts >= 1
    /\ Len(embeddings) = 2

\* C9: generate_embeddings returns exactly one vector per chunk that is not
\* empty, whitespace-only or shorter than 5 characters after stripping, in the
\* order of those chunks; when no chunk remains it returns an empty list and no
\* embedding request is ever sent.
C9_FilterShortChunks ==
    /\ e_pc = "returned" =>
          /\ Len(embeddings) = Len(KeptChunks)
          /\ \A i \in 1..Len(KeptChunks) : embeddings[i].of = KeptChunks[i]
    /\ KeptChunks = <<>> =>
          /\ e_requests = 0
          /\ e_pc \in {"call", "returned"}
          /\ embeddings = <<>>

\* an empty chunk and a chunk of 4 characters plus a space are dropped
C9_Witness ==
    /\ e_pc = "returned"
    /\ e_chunks = << <<>>, <<"a", "a", "a", "a", " ">>, <<" ", "a", "a", "a", "a", "a">> >>
    /\ Len(embeddings) = 1
    /\ e_requests >= 1

\* C10: a chunk whose every embedding attempt fails gets exactly max_retries
\* attempts, never more, and the error then raised carries the error of the last
\* attempt.
C10_ExactlyMaxRetriesAttempts ==
    /\ \A k \in 1..Len(e_tasks) :
          /\ e_tasks[k].calls <= e_max_retries
          /\ e_tasks[k].st = "failed" =>
                /\ e_tasks[k].calls = e_max_retries
                /\ e_tasks[k].last_exception.kind = "backend"
                /\ e_tasks[k].last_exception.attempt = e_max_retries
    /\ e_pc = "raised" =>
          /\ e_error.kind = "RuntimeError"
          /\ e_error.attempt = e_max_retries
          /\ \E k \in 1..Len(e_tasks) : e_tasks[k].st = "failed"

C10_Witness ==
    /\ e_pc = "raised"
    /\ e_max_retries = 2
    /\ \E k \in 1..Len(e_tasks) : e_tasks[k].st = "failed" /\ e_tasks[k].calls = 2

\* C11: batches run strictly one after another.  The tasks of the next batch
\* are created only when every task of the current batch has returned, so a
\* request is only ever sent for the batch whose results are still missing;
\* and once a task has failed for good, no later batch is started and no
\* request is sent after generate_embeddings has raised.
C11_BatchesInSequence ==
    [][/\ e_offset' # e_offset =>
             /\ \A k \in 1..Len(e_tasks) : e_tasks[k].st = "done"
             /\ Len(embeddings) = e_offset' 
       /\ e_requests' > e_requests => Len(embeddings) = e_offset
       /\ e_error # NoError => e_offset' = e_offset
       /\ e_pc = "raised" => e_requests' = e_requests]_vars

\* a request of the second batch is in flight after the first batch, which took
\* more than one request per chunk, has completed
C11_Witness ==
    /\ e_offset > 0
    /\ Len(embeddings) = e_offset
    /\ e_requests > Len(embeddings) + 1
    /\ \E k \in 1..Len(e_tasks) : e_tasks[k].st \in {"direct", "litellm"}

\* C12 (as stated): the effective concurrency is 1 for more than 200 chunks, 2
\* for 100..200 chunks (both ends included) and min(configured, 3) below.
C12_ConcurrencyByRange ==
    c_pc = "planned" =>
        c_effective = IF c_total > 200 THEN 1
                      ELSE IF c_total >= 100 THEN 2
                      ELSE Min(c_concurrency, 3)

\* C12 (amended): the effective concurrency, which is also the length of every
\* batch but the last, is 1 for more than 200 chunks, 2 for 101..200 chunks and
\* min(configured, 3) for 100 chunks or fewer.
C12_ConcurrencyByRangeFrom101 ==
    c_pc = "planned" =>
        /\ c_total >= 201 => c_effective = 1
        /\ (c_total >= 101 /\ c_total <= 200) => c_effective = 2
        /\ c_total <= 100 =>
              /\ c_effective <= 3
              /\ c_effective <= c_concurrency
              /\ c_effective = 3 \/ c_effective = c_concurrency
        /\ \A b \in 1..Len(c_batches) :
              /\ c_batches[b] >= 1
              /\ c_batches[b] <= c_effective
              /\ b < Len(c_batches) => c_batches[b] = c_effective

\* 100 chunks planned with a configured concurrency of 4: batches of 3
C12_Witness ==
    /\ c_pc = "planned"
    /\ c_total = 100
    /\ c_concurrency = 4
    /\ c_effective = 3

\* C13: with a progress_callback, the callback has been called once per
\* completed batch: the k-th call reports the chunks of the first k batches
\* and the number of filtered chunks, so the reported count strictly increases,
\* the last report always equals the number of vectors collected so far, and
\* when the call returns the last report is (total, total).
C13_ProgressPerBatch ==
    LET total == Len(KeptChunks)
        ec == EffectiveConcurrency(total, e_concurrency)
        n == Len(e_progress)
    IN  (e_callback /\ e_pc \in {"gather", "delay", "returned", "raised",
                                "callback_raised", "callback_blocked"}) =>
            /\ \A k \in 1..n : e_progress[k] = <<Min(k * ec, total), total>>
            /\ \A k \in 1..(n - 1) : e_progress[k][1] < e_progress[k + 1][1]
            /\ Len(embeddings) = IF n = 0 THEN 0 ELSE e_progress[n][1]
            /\ (e_pc = "returned" /\ total > 0) => e_progress[n] = <<total, total>>
            /\ e_pc = "delay" => n >= 1 /\ e_progress[n][1] < total

\* a call with three kept chunks in two batches has returned after two reports
C13_Witness ==
    /\ e_callback
    /\ e_pc = "returned"
    /\ Len(e_progress) = 2
    /\ e_progress[1] = <<2, 3>>
    /\ e_progress[2] = <<3, 3>>

\* C14: the progress callback never stops the embedding: the call is never
\* ended or held by its callback while chunks remain to be embedded.
C14_CallbackNeverBlocks ==
    e_pc \in {"callback_raised", "callback_blocked"} => processed >= Len(e_valid)

\* C15: when generate_embeddings raises (the retries of one chunk are used up),
\* the run creates no DocumentChunk row and leaves num_chunks alone, from the
\* moment the exception is raised until the run has exited.
C15_NoRowsWhenEmbeddingFails ==
    [][(w_exc'.stage = "embed" /\ w_pc' \in {"handler", "raised"}) =>
          /\ w_count' = 0
          /\ d_rows' = d_rows
          /\ d_num_chunks' = d_num_chunks]_vars

\* the first run of a document with two chunks has exited after its embedding
\* failed: the document is failed and has no rows
C15_Witness ==
    /\ w_pc = "raised"
    /\ w_exc.stage = "embed"
    /\ w_n = 2
    /\ d_status = "failed"
    /\ d_rows = 0
    /\ d_num_chunks = 0

\* the extracted text has fewer than 10 characters once stripped
ShortText ==
    \E i \in 0..Len(d_text) : \E j \in 0..Len(d_text) :
        StripsTo(d_text, i, j) /\ Len(d_text) - i - j < 10

\* C16: a document whose extracted text has fewer than 10 characters after
\* stripping is never chunked or embedded and keeps num_chunks = 0, and once a
\* run that reached the text check has exited, the document is failed with a
\* non-empty error_message.
C16_ShortTextEndsFailed ==
    ShortText =>
        /\ w_pc \notin {"chunk", "embed", "store", "hung", "returned"}
        /\ w_n = 0
        /\ d_num_chunks = 0
        /\ d_rows = 0
        /\ (w_pc \in {"raised", "dead"} /\ w_exc.stage = "validate") =>
              /\ d_status = "failed"
              /\ ~d_error.null
              /\ d_error.len > 0

\* C17: every error_message stored on a Document carries at most 10,000
\* characters of underlying error text: its length never exceeds 10,000 plus
\* the longest fixed text added around it ("Failed to start processing: ",
\* 28 characters).
C17_ErrorMessageBounded ==
    ~d_error.null => d_error.len <= 10000 + 28

-----------------------------------------------------------------------------
(* Properties of the chat turn *)

\* no message of the request has the role 'user'
NoUserMessage == \A i \in 1..Len(q_messages) : q_messages[i].role # "user"

\* C18: a request without any user-role message is answered with the 400
\* 'No user message found' response: the generator is never started, so no
\* cache, embedding, search or completion call is made, no event is sent and
\* nothing is persisted.
C18_NoUserMessageRejected ==
    NoUserMessage =>
        /\ t_pc \in {"received", "rejected"}
        /\ t_pc = "rejected" => t_response = "400"
        /\ t_calls = <<>>
        /\ t_events = <<>>
        /\ t_saved = <<>>
        /\ t_message_count = 0

\* a request whose only messages are assistant messages with content has been
\* rejected
C18_Witness ==
    /\ t_pc = "rejected"
    /\ t_response = "400"
    /\ Len(q_messages) = 2
    /\ \A i \in 1..2 : q_messages[i].role = "assistant" /\ q_messages[i].content # <<>>

\* the scope of the request is invalid: both ids are given, or neither
InvalidScope == (q_session_id # "none") <=> (q_document_id # "none")

\* C19: a request with both session_id and document_id, or with neither, makes
\* no cache, embedding, search or completion call and never gets past the scope
\* check.
C19_InvalidScopeRejected ==
    InvalidScope =>
        /\ t_calls = <<>>
        /\ t_pc \in {"received", "rejected", "scope", "failed"}

\* C20: a turn that failed before streaming (scope, query embedding, vector
\* search, context assembly) has sent exactly one event, the error event, has
\* made no completion call, and has persisted no message and left the
\* statistics of the session alone.
C20_FailureBeforeStreaming ==
    (t_pc = "failed" /\ t_failed_at \in {"scope", "embedding", "retrieving", "assembling"}) =>
        /\ t_events = <<"error">>
        /\ t_fragments = 0
        /\ \A i \in 1..Len(t_calls) : t_calls[i] # "completion"
        /\ t_saved = <<>>
        /\ t_message_count = 0

\* the vector search of a document chat has failed after the query was embedded
C20_Witness ==
    /\ t_pc = "failed"
    /\ t_failed_at = "retrieving"
    /\ t_scope = "document"
    /\ t_calls = <<"cache.get", "embed", "cache.set", "search">>
    /\ t_events = <<"error">>

\* C21: when the stream stops after at least one content fragment was
\* forwarded, the turn goes on to its persistence step: the provider failing in
\* the middle of a stream does not end the turn without an attempt to persist.
C21_PartialResponsePersisted ==
    [][(t_pc = "streaming" /\ t_fragments > 0 /\ t_pc' # "streaming")
          => t_pc' = "persisting"]_vars

\* C22: a failure of save_messages_async changes nothing the caller sees: while
\* and after the thread runs, the events are exactly the content events of the
\* stream, whether or not the thread saved its messages.
C22_SaveFailureInvisible ==
    t_pc \in {"persisting", "done"} =>
        /\ t_response = "stream"
        /\ Len(t_events) = t_fragments
        /\ \A i \in 1..Len(t_events) : t_events[i] = "content"

\* the thread failed after saving the user message only, after two fragments
C22_Witness ==
    /\ t_pc = "done"
    /\ Len(t_saved) = 1
    /\ t_fragments = 2
    /\ t_events = <<"content", "content">>

-----------------------------------------------------------------------------
(* Properties of the context selection and of the token estimate *)

\* the cost of the selected chunks: for each, its token cost (the stored count
\* when positive, else a quarter of its length rounded up) plus 2 for a separator
RECURSIVE SelectedCost(_)
SelectedCost(n) ==
    IF n = 0 THEN 0
    ELSE LET c == k_candidates[k_selected[n]]
         IN  SelectedCost(n - 1) + 2 +
             (IF c.token_count > 0 THEN c.token_count
              ELSE (Len(c.content) + 3) \div 4)

\* C23: the chunks selected for the context cost no more than the tokens
\* available to context chunks, and none is selected when nothing is available.
C23_ContextWithinBudget ==
    k_pc \in {"selected", "saved"} =>
        /\ k_available = k_max_context_tokens
                           - (k_prompt_tokens + (k_max_context_tokens \div 5))
        /\ k_available <= 0 => k_selected = <<>>
        /\ k_selected # <<>> => SelectedCost(Len(k_selected)) <= k_available
        /\ k_used_tokens = SelectedCost(Len(k_selected))

\* two of three candidates were selected and fill the budget exactly
C23_Witness ==
    /\ k_pc = "selected"
    /\ Len(k_candidates) = 3
    /\ Len(k_selected) = 2
    /\ k_used_tokens = k_available

\* C24: the query embedding a turn takes to the vector search is the embedding
\* of its own question, whether it came from the cache or from the embedding
\* service, and every cache entry holds the embedding of the question whose key
\* it is stored under, whichever of two racing turns wrote it last.
C24_CacheHitEqualsMiss ==
    /\ \A i \in Turns :
          h_turns[i].pc = "retrieving" =>
              h_turns[i].query_embedding = [of |-> h_turns[i].question, via |-> "model"]
    /\ \A i \in Turns :
          LET e == h_cache[CacheKey(h_turns[i].question)]
          IN  e.cached => e.vector = [of |-> h_turns[i].question, via |-> "model"]

\* one turn wrote the entry that the other turn, with the same question, had
\* also computed, and a turn has gone on with a vector read from the cache
C24_Witness ==
    /\ h_turns[1].question = h_turns[2].question
    /\ h_turns[1].pc = "retrieving" /\ ~h_turns[1].hit
    /\ h_turns[2].pc = "set"
    /\ h_cache[CacheKey(h_turns[1].question)].cached

\* a turn has gone on with a vector read from the cache
C24_WitnessHit ==
    \E i \in Turns : h_turns[i].pc = "retrieving" /\ h_turns[i].hit

\* C25: every ChatMessage a chat turn has persisted belongs to exactly one of
\* session and document, never both and never neither, whatever session_id and
\* document_id the request carried.
C25_MessageHasOneOwner ==
    \A i \in 1..Len(t_saved) : t_saved[i].session # t_saved[i].document

\* a request that carried both a session_id and a document_id has persisted
\* its messages
C25_Witness ==
    /\ q_session_id = "own"
    /\ q_document_id # "none"
    /\ Len(t_saved) = 2

\* C26: de-duplication by content hash is per user: the answer to an upload
\* never returns or refers to a document of another user; a file whose hash
\* matches only a document of another user gives a new document of the
\* uploader.
C26_DedupPerUser ==
    a_last.op = "document_upload" /\ a_last.document # 0 =>
        a_documents[a_last.document].user = a_last.caller

\* the operations of C27 that address a document, and those that address a
\* session; a chat turn addresses the session when it names one and the
\* document otherwise
AddressesDocument(answer) ==
    \/ answer.op \in {"document_detail_api", "document_delete", "chat_document"}
    \/ answer.op = "chat_stream" /\ answer.session_id = 0 /\ answer.document_id # 0
AddressesSession(answer) ==
    \/ answer.op \in {"chat_sessions_detail", "chat_sessions_update",
                      "chat_sessions_delete"}
    \/ answer.op = "chat_stream" /\ answer.session_id # 0

\* C27: every document- or session-scoped API operation acts only on objects of
\* its caller: it leaves every document and session of another user unchanged,
\* and when the object it addresses belongs to another user it answers
\* not-found and shows nothing.
C27_OnlyOwnObjects ==
    [][ AddressesDocument(a_last') \/ AddressesSession(a_last') =>
          /\ \A id \in DocumentIds :
                a_documents[id].exists /\ a_documents[id].user # a_last'.caller =>
                    a_documents'[id] = a_documents[id]
          /\ \A id \in SessionIds :
                a_sessions[id].exists /\ a_sessions[id].user # a_last'.caller =>
                    a_sessions'[id] = a_sessions[id]
          /\ ( /\ AddressesDocument(a_last')
               /\ a_documents[a_last'.document_id].exists
               /\ a_documents[a_last'.document_id].user # a_last'.caller )
                 => /\ a_last'.code = "not_found"
                    /\ a_last'.document = 0 /\ a_last'.session = 0
          /\ ( /\ AddressesSession(a_last')
               /\ a_sessions[a_last'.session_id].exists
               /\ a_sessions[a_last'.session_id].user # a_last'.caller )
                 => /\ a_last'.code = "not_found"
                    /\ a_last'.document = 0 /\ a_last'.session = 0
      ]_vars

\* a user has asked to delete a document of another user and got not-found
\* while a session of another user exists too
C27_Witness ==
    /\ a_last.op = "document_delete"
    /\ a_last.code = "not_found"
    /\ a_documents[a_last.document_id].exists
    /\ a_documents[a_last.document_id].user # a_last.caller
    /\ \E id \in SessionIds : a_sessions[id].exists /\ a_sessions[id].user # a_last.caller

\* C28: estimate_tokens(text) is the least integer not below len(text)/4 for a
\* text with a character that is not whitespace and 0 for an empty or
\* whitespace-only text, and would_exceed_limit(current, text, max) is true
\* exactly when current plus that estimate is above max.
C28_EstimateIsCeiling ==
    /\ n_pc \in {"estimated", "decided"} =>
          IF \E i \in 1..Len(n_text) : ~IsSpace(n_text[i])
          THEN 4 * n_tokens >= Len(n_text) /\ 4 * (n_tokens - 1) < Len(n_text)
          ELSE n_tokens = 0
    /\ n_pc = "decided" => (n_exceeds <=> n_current_tokens + n_tokens > n_max_tokens)

\* a text of five characters, which is two tokens and not one, has taken a
\* count of two over the limit of three
C28_Witness ==
    /\ n_pc = "decided"
    /\ Len(n_text) = 5 /\ n_text[1] = "a"
    /\ n_tokens = 2
    /\ n_current_tokens = 2 /\ n_max_tokens = 3
    /\ n_exceeds

\* C29: the sources persisted with an assistant message describe only chunks
\* that grounded the reply: every persisted source refers to a chunk that was
\* selected into the context of the turn.
C29_SourcesWereSelected ==
    k_pc = "saved" =>
        \A i \in 1..Len(k_sources) :
            \E j \in 1..Len(k_selected) :
                k_candidates[k_selected[j]].id = k_sources[i].chunk_id

\* C30: the retry loop stops at the first successful attempt: a task whose
\* k-th attempt was the first to succeed (k <= max_retries) has made exactly k
\* attempts, has slept exactly k-1 times, is done, and holds the vector that
\* attempt returned for its chunk.
C30_StopsAtFirstSuccess ==
    \A k \in 1..Len(e_tasks) :
        e_tasks[k].result # NoVector =>
            /\ e_tasks[k].st = "done"
            /\ e_tasks[k].calls = e_tasks[k].attempts + 1
            /\ e_tasks[k].calls <= e_max_retries
            /\ e_tasks[k].sleeps = e_tasks[k].calls - 1
            /\ e_tasks[k].result.of = e_tasks[k].chunk
            /\ e_tasks[k].result.via \in {"direct", "litellm"}

\* a task has succeeded at its third attempt, the last one allowed, after two
\* sleeps
C30_Witness ==
    \E k \in 1..Len(e_tasks) :
        /\ e_tasks[k].st = "done"
        /\ e_tasks[k].calls = 3 /\ e_max_retries = 3
        /\ e_tasks[k].sleeps = 2
        /\ e_tasks[k].result = [of |-> e_tasks[k].chunk, via |-> "litellm"]

\* C31: the sleep after the a-th failed attempt (1 <= a < max_retries) lasts
\* between retry_delay * 2^(a-1) and 1.3 * retry_delay * 2^(a-1), so the lower
\* bounds of successive sleeps double, and no sleep follows the final failed
\* attempt.
C31_BackoffBounds ==
    /\ \A a \in 1..Len(b_delays) :
          /\ a < b_max_retries
          /\ b_delays[a] >= b_retry_delay * 2 ^ (a - 1)
          /\ 10 * b_delays[a] <= 13 * b_retry_delay * 2 ^ (a - 1)
    /\ Len(b_delays) = IF b_attempts < b_max_retries THEN b_attempts
                       ELSE b_max_retries - 1
    /\ b_pc = "raised" => b_attempts = b_max_retries

\* all four attempts have failed: three sleeps, the last with the greatest
\* jitter, and none after the fourth failure
C31_Witness ==
    /\ b_pc = "raised"
    /\ b_max_retries = 4 /\ b_retry_delay = 20
    /\ Len(b_delays) = 3
    /\ b_delays[1] = 20 /\ b_delays[2] = 46 /\ b_delays[3] = 104

\* the embedding requests in flight: the tasks whose request has been sent and
\* has neither returned nor raised
InFlight == Cardinality({ k \in 1..Len(e_tasks) :
                            e_tasks[k].st \in {"direct", "fallback", "litellm"} })

\* C32: during one generate_embeddings call the number of embedding requests
\* in flight never exceeds the effective concurrency of the call (1 above 200
\* chunks, 2 above 100, else the least of the configured concurrency and 3),
\* and so never exceeds 3 whatever concurrency was configured.
C32_InFlightBounded ==
    /\ InFlight <= 3
    /\ InFlight <= ( IF Len(e_valid) > 200 THEN 1
                     ELSE IF Len(e_valid) > 100 THEN 2
                     ELSE IF e_concurrency < 3 THEN e_concurrency ELSE 3 )

\* a service configured with concurrency 4 embeds four chunks: three requests
\* are in flight and the fourth chunk waits for the next batch
C32_Witness ==
    /\ e_concurrency = 4
    /\ Len(e_valid) = 4
    /\ Len(e_tasks) = 3
    /\ InFlight = 3

\* C33: for the provider 'ollama' every attempt calls the direct client first
\* and LiteLLM only after the direct call failed; a fallback that succeeds
\* makes the attempt succeed; when both fail, both errors are logged together
\* and the attempt fails with the error of the direct client.  For another
\* provider an attempt makes one call, through LiteLLM, and has no fallback.
C33_DirectThenFallback ==
    \A k \in 1..Len(e_tasks) :
        LET t == e_tasks[k]
        IN  /\ e_provider = "ollama" =>
                  /\ t.backends \in {<<>>, <<"direct">>, <<"direct", "litellm">>}
                  /\ t.st = "direct" => t.backends = <<"direct">>
                  /\ t.st = "fallback" =>
                        /\ t.backends = <<"direct", "litellm">>
                        /\ t.primary = [kind |-> "backend", attempt |-> t.calls,
                                        backend |-> "direct"]
                  /\ t.st = "done" => t.result.via = t.backends[Len(t.backends)]
                  /\ t.attempts >= 1 =>
                        /\ t.last_exception = [kind |-> "backend", attempt |-> t.attempts,
                                               backend |-> "direct"]
                        /\ t.logged =
                             << [kind |-> "backend", attempt |-> t.attempts,
                                 backend |-> "direct"],
                                [kind |-> "backend", attempt |-> t.attempts,
                                 backend |-> "litellm"] >>
            /\ e_provider # "ollama" =>
                  /\ t.backends \in {<<>>, <<"litellm">>}
                  /\ t.st \notin {"direct", "fallback"}
                  /\ t.st = "done" => t.result.via = "litellm"
                  /\ t.attempts >= 1 =>
                        t.last_exception = [kind |-> "backend", attempt |-> t.attempts,
                                            backend |-> "litellm"]

\* with the provider 'ollama' a first attempt failed in both the direct client
\* and the fallback, and the fallback of the second attempt succeeded
C33_Witness ==
    /\ e_provider = "ollama"
    /\ \E k \in 1..Len(e_tasks) :
          /\ e_tasks[k].st = "done"
          /\ e_tasks[k].attempts = 1
          /\ e_tasks[k].backends = <<"direct", "litellm">>
          /\ e_tasks[k].result.via = "litellm"
          /\ Len(e_tasks[k].logged) = 2

\* the concatenation of the first n fragments of a sequence of fragments
RECURSIVE ConcatFirst(_, _)
ConcatFirst(fragments, n) ==
    IF n = 0 THEN <<>> ELSE ConcatFirst(fragments, n - 1) \o fragments[n]

\* the stage a stage of a chat turn may be followed by when nothing fails
NextStage(pc) ==
    CASE pc = "received" -> "scope"
      [] pc = "scope" -> "embedding"
      [] pc = "embedding" -> "retrieving"
      [] pc = "retrieving" -> "assembling"
      [] pc = "assembling" -> "streaming"
      [] pc = "streaming" -> "persisting"
      [] pc = "persisting" -> "done"
      [] OTHER -> "none"

\* C34: a chat turn that succeeds goes through its stages in the order
\* Received, EmbeddingQuery, Retrieving, AssemblingContext, Streaming,
\* Persisting: a stage is left only for the next one or for a failure, the
\* completion call comes after the search and the query embedding, the
\* fragments with content are forwarded in the order the provider sent them,
\* messages are persisted only after the stream has ended, and the assistant
\* content persisted is the concatenation of the forwarded fragments.
C34_StagesInOrder ==
    /\ [][ t_pc' # t_pc => t_pc' \in {NextStage(t_pc), "failed", "rejected"} ]_vars
    /\ []( /\ t_pc \in {"streaming", "persisting", "done"} =>
                 /\ Len(t_calls) >= 3
                 /\ t_calls[1] = "cache.get"
                 /\ t_calls[Len(t_calls) - 1] = "search"
                 /\ t_calls[Len(t_calls)] = "completion"
           /\ t_pc \notin {"streaming", "persisting", "done", "failed"} =>
                 /\ \A i \in 1..Len(t_calls) : t_calls[i] # "completion"
                 /\ t_emitted = <<>>
           /\ t_forwarded = SelectSeq(t_emitted, LAMBDA f : f # <<>>)
           /\ t_full_response = ConcatFirst(t_forwarded, Len(t_forwarded))
           /\ Len(t_events) >= Len(t_forwarded)
           /\ \A i \in 1..Len(t_forwarded) : t_events[i] = "content"
           /\ t_saved # <<>> => t_pc \in {"persisting", "done"}
           /\ \A i \in 1..Len(t_saved) :
                 t_saved[i].role = "assistant" =>
                     t_saved[i].content = ConcatFirst(t_forwarded, Len(t_forwarded)) )

\* a turn is done: the provider sent "a" and ".a", both were forwarded in that
\* order, and the assistant message "a.a" is persisted
C34_Witness ==
    /\ t_pc = "done"
    /\ t_emitted = << <<"a">>, <<".", "a">> >>
    /\ t_forwarded = t_emitted
    /\ Len(t_saved) = 2
    /\ t_saved[2].content = <<"a", ".", "a">>

\* the cost of the i-th candidate: its stored token_count when positive, else
\* the estimate of its content, plus the two tokens of the separator
CandidateCost(i) ==
    ( IF k_candidates[i].token_count > 0 THEN k_candidates[i].token_count
      ELSE (Len(k_candidates[i].content) + 3) \div 4 ) + 2

\* the cost of the first n candidates
RECURSIVE PrefixCost(_)
PrefixCost(n) == IF n = 0 THEN 0 ELSE PrefixCost(n - 1) + CandidateCost(n)

\* C35: context selection is a greedy prefix of the ranked candidates: the
\* chunks selected are the first m candidates in their order, every one of
\* them fitted in the budget when it was added, the candidate after them, if
\* there is one, would exceed what is left of the budget, and no later
\* candidate is selected even if it would fit.
C35_GreedyPrefix ==
    k_pc \in {"selected", "saved"} =>
        LET m == Len(k_selected)
        IN  /\ m <= Len(k_candidates)
            /\ k_selected = [i \in 1..m |-> i]
            /\ \A j \in 1..m : PrefixCost(j) <= k_available
            /\ m < Len(k_candidates) => PrefixCost(m + 1) > k_available

\* the first of three candidates is selected, the second does not fit, and the
\* third, which would have fitted, is left out
C35_Witness ==
    /\ k_pc = "selected"
    /\ Len(k_candidates) = 3
    /\ k_selected = <<1>>
    /\ PrefixCost(1) + CandidateCost(3) <= k_available
    /\ k_candidates[2].token_count = 0

\* C36: every chat turn with a valid scope and a non-empty latest user message
\* obtains a query embedding and goes on unless a backend fails, whatever the
\* length of the message: a turn fails in its embedding stage only when the
\* embedding backend was called and raised.
C36_ShortQuestionEmbedded ==
    t_failed_at = "embedding" =>
        \E i \in 1..Len(t_calls) : t_calls[i] = "embed"

\* The number of positions of the text s that hold the character c.
Occurrences(s, c) == Cardinality({ p \in 1..Len(s) : s[p] = c })

\* The chunks (by index) of the returned list whose content holds the character c.
ChunksHolding(c) == { i \in 1..Len(result) : \E p \in 1..Len(result[i].content) : result[i].content[p] = c }

\* C37: the chunks returned by chunk() are in document order.  Stated on a
\* character whose place in the input is unambiguous: when the first character of
\* the stripped text occurs nowhere else in the text and some returned chunk holds
\* it, the first returned chunk holds it (the text the first chunk introduces is
\* the beginning of the input, also when an oversized part is split recursively
\* while shorter parts are still held in the running buffer).
C37_ChunksInDocumentOrder ==
    LET stripped == strip(text)
    IN  (cpc = "returned" /\ Len(stripped) > 0 /\ Occurrences(text, stripped[1]) = 1
            /\ ChunksHolding(stripped[1]) # {})
        => 1 \in ChunksHolding(stripped[1])

\* C38: whenever the Document has status 'completed', its num_chunks equals the
\* number of DocumentChunk rows stored for it and is at least 1, after any
\* sequence of processing runs (a first run, a Celery retry after a partly failed
\* run, a repeated run of an already processed document).
C38_NumChunksCountsRows ==
    d_status = "completed" => (d_num_chunks = d_rows /\ d_num_chunks >= 1)

\* C39: every DocumentChunk row stored by ingestion pairs a chunk's content with
\* the embedding computed from that same content: the filter of the ingestion task
\* and the filter inside generate_embeddings keep exactly the same chunks, so that
\* index i of the returned embeddings belongs to index i of chunk_contents, and
\* every entry of chunk_contents gets its row.
C39_RowsPairContentWithItsEmbedding ==
    /\ p_pc \in {"embedding", "store", "completed"} => p_valid_chunks = p_chunk_contents
    /\ p_pc = "store" =>
          /\ Len(p_embeddings) = Len(p_chunk_contents)
          /\ \A i \in 1..Len(p_embeddings) : p_embeddings[i].of = p_chunk_contents[i]
    /\ p_pc = "completed" =>
          /\ Len(p_rows) = Len(p_chunk_contents)
          /\ \A i \in 1..Len(p_rows) :
                /\ p_rows[i].content = p_chunk_contents[i]
                /\ p_rows[i].embedding.of = p_rows[i].content

\* a run of three chunks, one dropped and one changed by strip(), that stored rows
C39_Witness ==
    /\ p_pc = "completed"
    /\ Len(p_chunks) = 3
    /\ Len(p_rows) = 2
    /\ \E i \in 1..3 : p_chunks[i] # strip(p_chunks[i]) /\ p_rows[1].content = strip(p_chunks[i])
    /\ p_chunks[3] # <<>> /\ Len(strip(p_chunks[3])) < MinChunkLen

\* the persistence thread of no turn is running, and that of some turn has run
AllTasksFinished ==
    /\ \A t \in ChatTurns : m_pc[t] \in {"request", "done"}
    /\ \E t \in ChatTurns : m_pc[t] = "done"

\* created_at of the latest assistant message of the session
LatestAssistantCreatedAt ==
    LET times == { m_rows[i].created_at : i \in { j \in 1..Len(m_rows) : m_rows[j].role = "assistant" } }
    IN  CHOOSE x \in times : \A y \in times : y <= x

\* C40: once the background persistence tasks of the concurrent chat turns on the
\* session have all finished, the session's message_count is the number of
\* ChatMessage rows of the session and last_message_at is the creation time of
\* its latest assistant message, for every interleaving of those tasks.
C40_StatisticsAfterConcurrentTurns ==
    AllTasksFinished =>
        /\ m_session.message_count = Len(m_rows)
        /\ m_session.last_message_at = LatestAssistantCreatedAt

====
